---- MODULE Spec2Model ----
(***************************************************************************)
(* The LC-3 microcoded control unit of simulator-lc3: the architectural    *)
(* state (state_machine/signals.cpp, mem/memory.h, mem/register.h), the    *)
(* per-state action routines (state_machine/states.cpp) and the sequencer  *)
(* (state_machine/state_machine.cpp).  Words are 16 bits wide; every       *)
(* arithmetic result is reduced modulo 2^16 as uint16_t does.  The         *)
(* pipeline model (src/core/memory/control_store.c) and the command loop   *)
(* that drives both (src/main.cpp) follow, each with its own               *)
(* specification.                                                          *)
(***************************************************************************)
EXTENDS Integers, Naturals, Sequences, FiniteSets, TLC

VARIABLES
    pointer_counter,   \* PC                       (mem/register.h:10)
    instruction_reg,   \* IR                       (mem/register.h:11)
    mem_addr_reg,      \* MAR                      (mem/memory.h:10)
    mem_data_reg,      \* MDR                      (mem/memory.h:11)
    reg,               \* R0..R7                   (mem/register.h:8)
    mem,               \* memory, sparse: absent addresses hold 0
    N, Z, P,           \* condition codes          (signals.cpp:11-13)
    BEN, INT, R, ACV,  \* control signals          (signals.cpp:4-8)
    PSR_15,            \* privilege signal         (signals.cpp:7)
    current_state,     \* microstate               (state_machine.cpp:10)
    machine_halted,    \*                          (state_machine.cpp:11)
    machine_error,     \*                          (state_machine.cpp:12)
    \* history, not program state
    prev_state,        \* the microstate whose action ran in the last tick
    fetch_pc,          \* PC when FETCH1 last ran (the address fetched from)
    snap,              \* architectural state at the end of the last DECODE tick
    jsr_link,          \* return address of the last JSR while R7 is untouched
    ticks,             \* ticks executed so far
    \* one evaluation of SEXT: argument, sign-bit index, results so far
    ext_arg, ext_bit, ext_res,
    \* the pipeline model                          (control_store.c:11-15)
    lc3_pipeline_config,
    lc3_pipeline_metrics,
    lc3_pipeline,
    lc3_current_cycle,
    lc3_pipeline_enabled,
    pipe_call,         \* history: the last pipeline call and its arguments
    pipe_calls,        \* history: number of pipeline calls so far
    issue_calls,       \* history: calls of lc3_pipeline_issue_instruction
    retired,           \* history: the packets that completed writeback
    held,              \* history: pc of the packets a cycle did not move
    \* the command loop                            (src/main.cpp)
    pipeline_mode,     \*                          (src/main.cpp:13)
    main_pc,           \* where the command loop stands
    old_pc,            \* local of the step command (src/main.cpp:142)
    executed           \* history: instructions the sequencer has decoded

sm_vars == <<pointer_counter, instruction_reg, mem_addr_reg, mem_data_reg,
             reg, mem, N, Z, P, BEN, INT, R, ACV, PSR_15, current_state,
             machine_halted, machine_error, prev_state, fetch_pc, snap,
             jsr_link>>

ext_vars == <<ext_arg, ext_bit, ext_res>>

pipe_vars == <<lc3_pipeline_config, lc3_pipeline_metrics, lc3_pipeline,
               lc3_current_cycle, lc3_pipeline_enabled, pipe_call,
               pipe_calls, issue_calls, retired, held>>

main_vars == <<pipeline_mode, main_pc, old_pc, executed>>

vars == <<sm_vars, ticks, ext_vars, pipe_vars, main_vars>>

----------------------------------------------------------------------------
(* Bounds of the model *)

MaxTicks == 12

\* SEXT is evaluated on every word within ExtSpan of a power of two
ExtSpan == 8

\* the pipeline functions are called at most MaxPipeCalls times
MaxPipeCalls == 8

\* the benchmark loop issues at most MaxFlow instructions
MaxFlow == 3

\* lc3_check_data_hazard is evaluated on register numbers 0..MaxReg
MaxReg == 3

\* with forwarding off, issue and cycle are called at most MaxStallCalls
\* times
MaxStallCalls == 10

----------------------------------------------------------------------------
(* Program constants *)

WORD == 65536
UINT16_MAX == 65535

USER_SPACE_ADDR == 12288
USER_SPACE_LIMIT == 65023
INTERRUPT_VECTOR_TABLE_ADDR == 256

KBSR == 65024
KBDR == 65026
DSR == 65028
DDR == 65030
PSR == 65532
MCR == 65534

GETC == 32
OUT == 33
PUTS == 34
TRAP_IN == 35
PUTSP == 36
HALT == 37

BR == 0
ADD == 4096
LD == 8192
ST == 12288
JSR == 16384
AND == 20480
LDR == 24576
STR == 28672
RTI == 32768
NOT == 36864
LDI == 40960
STI == 45056
JMP == 49152
UNUSED_OP == 53248
LEA == 57344
TRAP == 61440

FETCH1 == 18
FETCH2 == 33
FETCH3 == 35
DECODE == 32
BR_STATE == 0
ADD_STATE == 1
LD_STATE1 == 2
ST_STATE1 == 3
ST_STATE2 == 4
AND_STATE == 5
LDR_STATE1 == 6
STR_STATE1 == 7
RTI_STATE == 8
NOT_STATE == 9
LDI_STATE1 == 10
STI_STATE1 == 11
STI_STATE2 == 13
JMP_STATE == 12
LEA_STATE == 14
TRAP_STATE1 == 15
TRAP_STATE2 == 43
TRAP_STATE3 == 44
TRAP_STATE4 == 45
LOAD_IR == 30
JSRR_STATE == 20
JSR_STATE == 21
BR_TAKEN == 22
ST_PREP == 23
LD_STATE2 == 25
LD_STATE3 == 27
LDR_STATE2 == 37
LDR_STATE3 == 38
STR_STATE2 == 39
LDI_STATE2 == 40
LDI_STATE3 == 41
LDI_STATE4 == 42
UNKNOWN_INSTRUCTION == 63
INTERRUPT_STATE == 46

----------------------------------------------------------------------------
(* Bit helpers: ext.cpp *)

RECURSIVE Pow2(_)
Pow2(n) == IF n = 0 THEN 1 ELSE 2 * Pow2(n - 1)

\* bit_table[i], ext.cpp:4-6
bit_table(i) == Pow2(i)

\* (v & bit_table[i]) != 0
TestBit(v, i) == (v \div bit_table(i)) % 2 = 1

RECURSIVE AndBits(_, _, _)
AndBits(a, b, n) ==
    IF n = 0 THEN 0
    ELSE (a % 2) * (b % 2) + 2 * AndBits(a \div 2, b \div 2, n - 1)

\* a & b on uint16_t
BitAnd(a, b) == AndBits(a, b, 16)

\* ~a on uint16_t
BitNot(a) == UINT16_MAX - a

\* Mutant of SEXT: the argument is not masked and the upper bits are added
\* instead of or-ed in.
SEXT_unmasked(ir, bit) ==
    LET mask == (Pow2(bit + 1) - 1) % WORD
    IN IF TestBit(ir, bit) THEN (ir + BitNot(mask)) % WORD ELSE ir

\* ext.cpp:9-17: mask the low (bit+1) bits, then set every higher bit when
\* the sign bit is set (value |= ~mask).
SEXT(ir, bit) ==
    LET mask == (Pow2(bit + 1) - 1) % WORD
        value == BitAnd(ir, mask)
    IN IF TestBit(value, bit) THEN value + BitNot(mask) ELSE value

\* ext.cpp:20-28: clear every bit above `bit`.
ZEXT(ir, bit) == ir % Pow2(bit + 1)

\* (uint16_t)(a + b)
Add16(a, b) == (a + b) % WORD

\* (uint16_t)(a - 1)
Dec16(a) == (a + UINT16_MAX) % WORD

\* CAST_TO_OPCODE, type/opcode.h:25
CAST_TO_OPCODE(instruction) == (instruction \div 4096) * 4096

----------------------------------------------------------------------------
(* Memory: mem[] is zero-filled by initialize_simulator (main.cpp:27-29);  *)
(* only the words that differ from that or were written are kept.          *)

MemRead(m, a) == IF a \in DOMAIN m THEN m[a] ELSE 0

MemWrite(m, a, v) ==
    [x \in (DOMAIN m) \cup {a} |-> IF x = a THEN v ELSE m[x]]

----------------------------------------------------------------------------
(* The architectural state as one record, handed to the action routines.   *)

AS ==
    [pc |-> pointer_counter, ir |-> instruction_reg, mar |-> mem_addr_reg,
     mdr |-> mem_data_reg, reg |-> reg, mem |-> mem, N |-> N, Z |-> Z,
     P |-> P, BEN |-> BEN, INT |-> INT, R |-> R, ACV |-> ACV,
     PSR_15 |-> PSR_15]

----------------------------------------------------------------------------
(* Control signals: state_machine/signals.cpp *)

\* Mutant of SET_ACV: the privilege test is inverted (violation raised in
\* supervisor mode).
SET_ACV_supervisor(s) ==
    [s EXCEPT !.ACV =
        IF (s.mar < USER_SPACE_ADDR \/ s.mar > USER_SPACE_LIMIT)
            /\ s.PSR_15 # 0
        THEN 1 ELSE 0]

\* signals.cpp:19-27
SET_ACV(s) ==
    [s EXCEPT !.ACV =
        IF (s.mar < USER_SPACE_ADDR \/ s.mar > USER_SPACE_LIMIT)
            /\ s.PSR_15 = 0
        THEN 1 ELSE 0]

\* Mutant of SET_CC: the flags are not cleared before one is set.
SET_CC_noclear(s, r) ==
    IF r = 0 THEN [s EXCEPT !.Z = 1]
    ELSE IF TestBit(r, 15) THEN [s EXCEPT !.N = 1]
    ELSE [s EXCEPT !.P = 1]

\* signals.cpp:34-47
SET_CC(s, r) ==
    IF r = 0 THEN [s EXCEPT !.N = 0, !.Z = 1, !.P = 0]
    ELSE IF TestBit(r, 15) THEN [s EXCEPT !.N = 1, !.Z = 0, !.P = 0]
    ELSE [s EXCEPT !.N = 0, !.Z = 0, !.P = 1]

\* signals.cpp:54-65
SET_BEN(s) ==
    LET n_bit == IF TestBit(s.ir, 11) THEN 1 ELSE 0
        z_bit == IF TestBit(s.ir, 10) THEN 1 ELSE 0
        p_bit == IF TestBit(s.ir, 9) THEN 1 ELSE 0
    IN [s EXCEPT !.BEN =
          IF (s.N # 0 /\ n_bit # 0) \/ (s.Z # 0 /\ z_bit # 0)
              \/ (s.P # 0 /\ p_bit # 0)
          THEN 1 ELSE 0]

----------------------------------------------------------------------------
(* Action routines: state_machine/states.cpp.  ReadToMDR and WriteFromMDR   *)
(* are the do { ...; R = 1; } while (!R) bodies shared by several states.   *)

DRidx(s) == ZEXT(s.ir \div 512, 2)
SR1idx(s) == ZEXT(s.ir \div 64, 2)
SR2idx(s) == ZEXT(s.ir, 2)

ReadToMDR(s) == [s EXCEPT !.mdr = MemRead(s.mem, s.mar), !.R = 1]

WriteFromMDR(s) == [s EXCEPT !.mem = MemWrite(s.mem, s.mar, s.mdr), !.R = 1]

\* states.cpp:7-12
state_0(s) ==
    IF s.BEN # 0 THEN [s EXCEPT !.pc = Add16(s.pc, SEXT(s.ir, 8))] ELSE s

\* Mutant of state_1: the immediate is sign-extended from bit 5, not bit 4.
state_1_sext5(s) ==
    LET v == IF TestBit(s.ir, 5)
             THEN Add16(s.reg[SR1idx(s)], SEXT(s.ir, 5))
             ELSE Add16(s.reg[SR1idx(s)], s.reg[SR2idx(s)])
    IN SET_CC([s EXCEPT !.reg[DRidx(s)] = v], v)

\* states.cpp:19-29
state_1(s) ==
    LET v == IF TestBit(s.ir, 5)
             THEN Add16(s.reg[SR1idx(s)], SEXT(s.ir, 4))
             ELSE Add16(s.reg[SR1idx(s)], s.reg[SR2idx(s)])
    IN SET_CC([s EXCEPT !.reg[DRidx(s)] = v], v)

\* states.cpp:36-40
state_2(s) == SET_ACV([s EXCEPT !.mar = Add16(s.pc, SEXT(s.ir, 8))])

\* states.cpp:47-51
state_3(s) == SET_ACV([s EXCEPT !.mar = Add16(s.pc, SEXT(s.ir, 8))])

\* states.cpp:53-59
state_4(s) == WriteFromMDR(s)

\* states.cpp:61-71
state_5(s) ==
    LET v == IF TestBit(s.ir, 5)
             THEN BitAnd(s.reg[SR1idx(s)], SEXT(s.ir, 4))
             ELSE BitAnd(s.reg[SR1idx(s)], s.reg[SR2idx(s)])
    IN SET_CC([s EXCEPT !.reg[DRidx(s)] = v], v)

\* states.cpp:73-82
state_6(s) ==
    LET offset6 == BitAnd(s.ir, 63)
    IN SET_ACV([s EXCEPT !.mar = Add16(s.reg[SR1idx(s)], SEXT(offset6, 5))])

\* Mutant of state_7: the address is computed and ACV is left as it is.
state_7_noacv(s) ==
    LET offset6 == BitAnd(s.ir, 63)
    IN [s EXCEPT !.mar = Add16(s.reg[SR1idx(s)], SEXT(offset6, 5))]

\* states.cpp:84-93
state_7(s) ==
    LET offset6 == BitAnd(s.ir, 63)
    IN SET_ACV([s EXCEPT !.mar = Add16(s.reg[SR1idx(s)], SEXT(offset6, 5))])

\* states.cpp:95-105
state_8(s) ==
    IF s.PSR_15 # 0
    THEN LET sp0 == s.reg[6]
             sp1 == Add16(sp0, 1)
             sp2 == Add16(sp1, 1)
             psr == MemRead(s.mem, sp1)
             m2 == MemWrite(s.mem, PSR, psr)
         IN [s EXCEPT !.pc = MemRead(s.mem, sp0),
                      !.reg[6] = sp2,
                      !.mem = m2,
                      !.PSR_15 = IF TestBit(MemRead(m2, PSR), 15) THEN 1 ELSE 0]
    ELSE s

\* states.cpp:107-113
state_9(s) ==
    LET v == BitNot(s.reg[SR1idx(s)])
    IN SET_CC([s EXCEPT !.reg[DRidx(s)] = v], v)

\* states.cpp:115-119
state_10(s) == SET_ACV([s EXCEPT !.mar = Add16(s.pc, SEXT(s.ir, 8))])

\* states.cpp:121-128
state_11(s) == SET_ACV([s EXCEPT !.mar = MemRead(s.mem, s.mar), !.R = 1])

\* states.cpp:130-133
state_12(s) == [s EXCEPT !.pc = s.reg[SR1idx(s)]]

\* states.cpp:135-141
state_13(s) == WriteFromMDR(s)

\* states.cpp:142-147
state_14(s) ==
    LET v == Add16(s.pc, SEXT(s.ir, 8))
    IN SET_CC([s EXCEPT !.reg[DRidx(s)] = v], v)

\* states.cpp:149-154
state_15(s) ==
    LET trap_vector == ZEXT(s.ir, 7)
    IN [s EXCEPT !.reg[7] = s.pc, !.pc = MemRead(s.mem, trap_vector)]

\* states.cpp:156-161
state_16(s) == WriteFromMDR(s)

\* states.cpp:165-170
state_18(s) == SET_ACV([s EXCEPT !.mar = s.pc, !.pc = Add16(s.pc, 1)])

\* states.cpp:173-178: R7 is written first, and BaseR is read afterwards
state_20(s) ==
    LET linked == [s EXCEPT !.reg[7] = s.pc]
    IN [linked EXCEPT !.pc = linked.reg[SR1idx(s)]]

\* Mutant of state_21: R7 is saved after PC has been updated.
state_21_latelink(s) ==
    LET offset11 == BitAnd(s.ir, 2047)
        target == Add16(s.pc, SEXT(offset11, 10))
    IN [s EXCEPT !.reg[7] = target, !.pc = target]

\* states.cpp:180-187
state_21(s) ==
    LET offset11 == BitAnd(s.ir, 2047)
    IN [s EXCEPT !.reg[7] = s.pc, !.pc = Add16(s.pc, SEXT(offset11, 10))]

\* states.cpp:189-191
state_22(s) == [s EXCEPT !.pc = Add16(s.pc, SEXT(s.ir, 8))]

\* states.cpp:193-197
state_23(s) == [s EXCEPT !.mdr = s.reg[DRidx(s)]]

\* states.cpp:201-206
state_25(s) == ReadToMDR(s)

\* states.cpp:212-217
state_28(s) == ReadToMDR(s)

\* states.cpp:221-223
state_30(s) == [s EXCEPT !.ir = s.mdr]

\* states.cpp:227-230
state_32(s) == SET_BEN(s)

\* states.cpp:234-240
state_34(s) == ReadToMDR(s)

\* states.cpp:242-248
state_35(s) == ReadToMDR(s)

\* states.cpp:250-255
state_36(s) ==
    SET_CC([s EXCEPT !.reg[DRidx(s)] = s.mdr], s.mdr)

\* states.cpp:257-263
state_37(s) == ReadToMDR(s)

\* states.cpp:265-270
state_38(s) ==
    SET_CC([s EXCEPT !.reg[DRidx(s)] = s.mdr], s.mdr)

\* states.cpp:272-280
state_39(s) ==
    WriteFromMDR([s EXCEPT !.mdr = s.reg[DRidx(s)]])

\* states.cpp:282-289
state_40(s) == SET_ACV([s EXCEPT !.mar = MemRead(s.mem, s.mar), !.R = 1])

\* states.cpp:291-297
state_41(s) == ReadToMDR(s)

\* states.cpp:299-304
state_42(s) ==
    SET_CC([s EXCEPT !.reg[DRidx(s)] = s.mdr], s.mdr)

\* states.cpp:306-309
state_43(s) == [s EXCEPT !.mar = ZEXT(s.ir, 7)]

\* states.cpp:311-317
state_44(s) == ReadToMDR(s)

\* states.cpp:319-322
state_45(s) == [s EXCEPT !.pc = s.mdr]

\* Mutant of state_46: PC is pushed before the PSR word.
state_46_swapped(s) ==
    IF s.INT # 0 /\ s.PSR_15 = 0
    THEN LET sp1 == Dec16(s.reg[6])
             sp2 == Dec16(sp1)
             m1 == MemWrite(s.mem, sp1, s.pc)
             m2 == MemWrite(m1, sp2, MemRead(m1, PSR))
         IN [s EXCEPT !.reg[6] = sp2,
                      !.mem = m2,
                      !.PSR_15 = 1,
                      !.pc = MemRead(m2, INTERRUPT_VECTOR_TABLE_ADDR)]
    ELSE s

\* states.cpp:324-335
state_46(s) ==
    IF s.INT # 0 /\ s.PSR_15 = 0
    THEN LET sp1 == Dec16(s.reg[6])
             sp2 == Dec16(sp1)
             m1 == MemWrite(s.mem, sp1, MemRead(s.mem, PSR))
             m2 == MemWrite(m1, sp2, s.pc)
         IN [s EXCEPT !.reg[6] = sp2,
                      !.mem = m2,
                      !.PSR_15 = 1,
                      !.pc = MemRead(m2, INTERRUPT_VECTOR_TABLE_ADDR)]
    ELSE s

\* states.cpp: state_17, 19, 24, 26, 27, 29, 31, 33, 47..63 have empty bodies
state_empty(s) == s

----------------------------------------------------------------------------
(* The sequencer: state_machine/state_machine.cpp *)

\* states.h:85-151 via state_machine.cpp:61-67: the dispatch table maps state
\* number k to state_k.
execute_current_state(s, cs) ==
    CASE cs = 0 -> state_0(s)
      [] cs = 1 -> state_1(s)
      [] cs = 2 -> state_2(s)
      [] cs = 3 -> state_3(s)
      [] cs = 4 -> state_4(s)
      [] cs = 5 -> state_5(s)
      [] cs = 6 -> state_6(s)
      [] cs = 7 -> state_7(s)
      [] cs = 8 -> state_8(s)
      [] cs = 9 -> state_9(s)
      [] cs = 10 -> state_10(s)
      [] cs = 11 -> state_11(s)
      [] cs = 12 -> state_12(s)
      [] cs = 13 -> state_13(s)
      [] cs = 14 -> state_14(s)
      [] cs = 15 -> state_15(s)
      [] cs = 16 -> state_16(s)
      [] cs = 18 -> state_18(s)
      [] cs = 20 -> state_20(s)
      [] cs = 21 -> state_21(s)
      [] cs = 22 -> state_22(s)
      [] cs = 23 -> state_23(s)
      [] cs = 25 -> state_25(s)
      [] cs = 28 -> state_28(s)
      [] cs = 30 -> state_30(s)
      [] cs = 32 -> state_32(s)
      [] cs = 34 -> state_34(s)
      [] cs = 35 -> state_35(s)
      [] cs = 36 -> state_36(s)
      [] cs = 37 -> state_37(s)
      [] cs = 38 -> state_38(s)
      [] cs = 39 -> state_39(s)
      [] cs = 40 -> state_40(s)
      [] cs = 41 -> state_41(s)
      [] cs = 42 -> state_42(s)
      [] cs = 43 -> state_43(s)
      [] cs = 44 -> state_44(s)
      [] cs = 45 -> state_45(s)
      [] cs = 46 -> state_46(s)
      [] OTHER -> state_empty(s)

\* state_machine.cpp:97-103
handle_fetch_transition(s) ==
    IF s.INT # 0 /\ s.PSR_15 = 0 THEN INTERRUPT_STATE ELSE FETCH2

\* Mutant of handle_decode_transition: the IR[11] test of opcode JSR is
\* inverted.
handle_decode_transition_jsrswap(s) ==
    LET opcode == CAST_TO_OPCODE(s.ir)
    IN CASE opcode = ADD -> ADD_STATE
         [] opcode = AND -> AND_STATE
         [] opcode = BR -> BR_STATE
         [] opcode = JMP -> JMP_STATE
         [] opcode = JSR ->
                IF TestBit(s.ir, 11) THEN JSRR_STATE ELSE JSR_STATE
         [] opcode = LD -> LD_STATE1
         [] opcode = LDI -> LDI_STATE1
         [] opcode = LDR -> LDR_STATE1
         [] opcode = LEA -> LEA_STATE
         [] opcode = NOT -> NOT_STATE
         [] opcode = RTI -> RTI_STATE
         [] opcode = ST -> ST_STATE1
         [] opcode = STI -> STI_STATE1
         [] opcode = STR -> STR_STATE1
         [] opcode = TRAP -> TRAP_STATE1
         [] OTHER -> UNKNOWN_INSTRUCTION

\* state_machine.cpp:108-163, the state returned
handle_decode_transition(s) ==
    LET opcode == CAST_TO_OPCODE(s.ir)
    IN CASE opcode = ADD -> ADD_STATE
         [] opcode = AND -> AND_STATE
         [] opcode = BR -> BR_STATE
         [] opcode = JMP -> JMP_STATE
         [] opcode = JSR ->
                IF TestBit(s.ir, 11) THEN JSR_STATE ELSE JSRR_STATE
         [] opcode = LD -> LD_STATE1
         [] opcode = LDI -> LDI_STATE1
         [] opcode = LDR -> LDR_STATE1
         [] opcode = LEA -> LEA_STATE
         [] opcode = NOT -> NOT_STATE
         [] opcode = RTI -> RTI_STATE
         [] opcode = ST -> ST_STATE1
         [] opcode = STI -> STI_STATE1
         [] opcode = STR -> STR_STATE1
         [] opcode = TRAP -> TRAP_STATE1
         [] OTHER -> UNKNOWN_INSTRUCTION

\* state_machine.cpp:158-161: the default case's machine_error = true
decode_sets_error(s) ==
    CAST_TO_OPCODE(s.ir) \notin
        {ADD, AND, BR, JMP, JSR, LD, LDI, LDR, LEA, NOT, RTI, ST, STI, STR,
         TRAP}

\* Mutant of handle_execution_transition: the last LDI state goes back to
\* the first one.
handle_execution_transition_ldiloop(s, cs) ==
    CASE cs = LD_STATE1 -> LD_STATE2
      [] cs = LD_STATE2 -> LD_STATE3
      [] cs = LDI_STATE1 -> LDI_STATE2
      [] cs = LDI_STATE2 -> LDI_STATE3
      [] cs = LDI_STATE3 -> LDI_STATE4
      [] cs = LDI_STATE4 -> LDI_STATE1
      [] cs = LDR_STATE1 -> LDR_STATE2
      [] cs = LDR_STATE2 -> LDR_STATE3
      [] cs = ST_STATE1 -> ST_STATE2
      [] cs = STI_STATE1 -> STI_STATE2
      [] cs = STR_STATE1 -> STR_STATE2
      [] cs = TRAP_STATE1 -> TRAP_STATE2
      [] cs = TRAP_STATE2 -> TRAP_STATE3
      [] cs = TRAP_STATE3 -> TRAP_STATE4
      [] cs = BR_STATE -> IF s.BEN # 0 THEN BR_TAKEN ELSE FETCH1
      [] OTHER -> FETCH1

\* state_machine.cpp:169-215
handle_execution_transition(s, cs) ==
    CASE cs = LD_STATE1 -> LD_STATE2
      [] cs = LD_STATE2 -> LD_STATE3
      [] cs = LDI_STATE1 -> LDI_STATE2
      [] cs = LDI_STATE2 -> LDI_STATE3
      [] cs = LDI_STATE3 -> LDI_STATE4
      [] cs = LDR_STATE1 -> LDR_STATE2
      [] cs = LDR_STATE2 -> LDR_STATE3
      [] cs = ST_STATE1 -> ST_STATE2
      [] cs = STI_STATE1 -> STI_STATE2
      [] cs = STR_STATE1 -> STR_STATE2
      [] cs = TRAP_STATE1 -> TRAP_STATE2
      [] cs = TRAP_STATE2 -> TRAP_STATE3
      [] cs = TRAP_STATE3 -> TRAP_STATE4
      [] cs = BR_STATE -> IF s.BEN # 0 THEN BR_TAKEN ELSE FETCH1
      [] OTHER -> FETCH1

\* state_machine.cpp:73-92
get_next_state(s, cs) ==
    CASE cs = FETCH1 -> handle_fetch_transition(s)
      [] cs = FETCH2 -> FETCH3
      [] cs = FETCH3 -> DECODE
      [] cs = DECODE -> handle_decode_transition(s)
      [] OTHER -> handle_execution_transition(s, cs)

\* Mutant of check_halt_conditions: the MCR test is left out.
check_halt_conditions_nomcr(s, err) ==
    IF err THEN [halted |-> FALSE, error |-> TRUE]
    ELSE IF s.ACV # 0 THEN [halted |-> FALSE, error |-> TRUE]
    ELSE [halted |-> FALSE, error |-> FALSE]

\* Mutant of check_halt_conditions: the ACV test is left out.
check_halt_conditions_noacv(s, err) ==
    IF ~TestBit(MemRead(s.mem, MCR), 15)
    THEN [halted |-> TRUE, error |-> err]
    ELSE IF err THEN [halted |-> FALSE, error |-> TRUE]
    ELSE [halted |-> FALSE, error |-> FALSE]

\* Mutant of check_halt_conditions: an access violation also counts as a
\* normal halt.
check_halt_conditions_acvhalts(s, err) ==
    IF ~TestBit(MemRead(s.mem, MCR), 15)
    THEN [halted |-> TRUE, error |-> err]
    ELSE IF err THEN [halted |-> FALSE, error |-> TRUE]
    ELSE IF s.ACV # 0 THEN [halted |-> TRUE, error |-> TRUE]
    ELSE [halted |-> FALSE, error |-> FALSE]

\* state_machine.cpp:220-240; err is machine_error on entry.  The result is
\* the pair of flags after the call.
check_halt_conditions(s, err) ==
    IF ~TestBit(MemRead(s.mem, MCR), 15)
    THEN [halted |-> TRUE, error |-> err]
    ELSE IF err THEN [halted |-> FALSE, error |-> TRUE]
    ELSE IF s.ACV # 0 THEN [halted |-> FALSE, error |-> TRUE]
    ELSE [halted |-> FALSE, error |-> FALSE]

\* state_machine.cpp:245-247
should_continue_execution ==
    ~machine_halted /\ ~machine_error /\ pointer_counter <= UINT16_MAX

----------------------------------------------------------------------------
(* The pipeline model: src/core/memory/control_store.c, with the types of   *)
(* mem/control_store.h.  The counters are uint32_t and uint64_t and stay    *)
(* far below their width within the bounds of the model.                    *)

\* lc3_pipeline_stage_t, control_store.h:22-30
LC3_STAGE_FETCH == 0
LC3_STAGE_DECODE == 1
LC3_STAGE_EXECUTE == 2
LC3_STAGE_MEMORY == 3
LC3_STAGE_WRITEBACK == 4
LC3_STAGE_CUSTOM == 5
LC3_STAGE_MAX == 6

\* lc3_hazard_type_t, control_store.h:35-43
LC3_HAZARD_NONE == 0
LC3_HAZARD_DATA_RAW == 1
LC3_HAZARD_DATA_WAW == 2
LC3_HAZARD_DATA_WAR == 3

\* lc3_pipeline[8] (control_store.c:13) and hazards[4] (control_store.h:112)
PIPELINE_SLOTS == 8
HAZARD_SLOTS == 4

\* control_store.c:69-106: every field of the packet is overwritten, so the
\* result does not depend on the packet handed in.
lc3_instruction_packet_init ==
    [instruction |-> 0, pc |-> 0, opcode |-> 0,
     dest_reg |-> 0, src_reg1 |-> 0, src_reg2 |-> 0, immediate |-> 0,
     issue_cycle |-> 0, completion_cycle |-> 0,
     current_stage |-> LC3_STAGE_FETCH,
     stage_completed |-> [i \in 0..(LC3_STAGE_MAX - 1) |-> FALSE],
     hazards |-> [i \in 0..(HAZARD_SLOTS - 1) |-> LC3_HAZARD_NONE],
     num_hazards |-> 0, stalled |-> FALSE, stall_cycles |-> 0,
     needs_memory |-> FALSE, memory_address |-> 0,
     is_load |-> FALSE, is_store |-> FALSE,
     is_branch |-> FALSE, branch_taken |-> FALSE, branch_target |-> 0]

\* control_store.c:48-64 (the derived ratios cpi, ipc and
\* pipeline_efficiency are 0.0 here and only computed on a copy by
\* lc3_pipeline_get_metrics)
lc3_pipeline_metrics_reset ==
    [total_cycles |-> 0, total_instructions |-> 0, stall_cycles |-> 0,
     data_hazards |-> 0, control_hazards |-> 0, structural_hazards |-> 0,
     memory_reads |-> 0, memory_writes |-> 0, memory_stall_cycles |-> 0]

\* control_store.c:20-43: stages[5..7] keep what the caller's object held
lc3_pipeline_config_init_default(config) ==
    [config EXCEPT
        !.name = "LC-3 Default Pipeline",
        !.stages = [i \in 0..(PIPELINE_SLOTS - 1) |->
                      IF i = 0 THEN LC3_STAGE_FETCH
                      ELSE IF i = 1 THEN LC3_STAGE_DECODE
                      ELSE IF i = 2 THEN LC3_STAGE_EXECUTE
                      ELSE IF i = 3 THEN LC3_STAGE_MEMORY
                      ELSE IF i = 4 THEN LC3_STAGE_WRITEBACK
                      ELSE config.stages[i]],
        !.depth = 5,
        !.forwarding_enabled = TRUE,
        !.branch_prediction_enabled = FALSE,
        !.out_of_order_execution = FALSE,
        !.clock_frequency = 100,
        !.memory_latency = 1,
        !.branch_penalty = 2,
        !.enable_detailed_metrics = TRUE,
        !.enable_pipeline_trace = FALSE]

\* The globals of control_store.c:11-15 before any call: static storage,
\* zero-initialised.
ZeroConfig ==
    [name |-> "", stages |-> [i \in 0..(PIPELINE_SLOTS - 1) |-> 0],
     depth |-> 0, forwarding_enabled |-> FALSE,
     branch_prediction_enabled |-> FALSE, out_of_order_execution |-> FALSE,
     clock_frequency |-> 0, memory_latency |-> 0, branch_penalty |-> 0,
     enable_detailed_metrics |-> FALSE, enable_pipeline_trace |-> FALSE]

ZeroPipeline ==
    [i \in 0..(PIPELINE_SLOTS - 1) |-> lc3_instruction_packet_init]

\* The pipeline globals as one record, handed to the functions below.
PM ==
    [config |-> lc3_pipeline_config, metrics |-> lc3_pipeline_metrics,
     pipeline |-> lc3_pipeline, cycle |-> lc3_current_cycle,
     enabled |-> lc3_pipeline_enabled]

\* control_store.c:111-122
lc3_pipeline_init(pm) ==
    [config |-> lc3_pipeline_config_init_default(pm.config),
     metrics |-> lc3_pipeline_metrics_reset,
     pipeline |-> ZeroPipeline,
     cycle |-> 0,
     enabled |-> TRUE]

lc3_pipeline_reset_keepcycle(pm) ==
    [pm EXCEPT !.metrics = lc3_pipeline_metrics_reset,
               !.pipeline = ZeroPipeline]

\* control_store.c:127-136
lc3_pipeline_reset(pm) ==
    [pm EXCEPT !.metrics = lc3_pipeline_metrics_reset,
               !.pipeline = ZeroPipeline,
               !.cycle = 0]

\* control_store.c:141-146 (config is never a null pointer here)
lc3_pipeline_configure(pm, config) ==
    lc3_pipeline_reset([pm EXCEPT !.config = config])

\* control_store.c:151-226
lc3_decode_instruction(packet, instruction, pc) ==
    LET opcode == CAST_TO_OPCODE(instruction)
        p0 == [packet EXCEPT !.instruction = instruction, !.pc = pc,
                             !.opcode = opcode]
        f9 == (instruction \div 512) % 8
        f6 == (instruction \div 64) % 8
    IN CASE opcode \in {ADD, AND} ->
              IF (instruction \div 32) % 2 = 1
              THEN [p0 EXCEPT !.dest_reg = f9, !.src_reg1 = f6,
                              !.immediate = instruction % 32,
                              !.src_reg2 = 0]
              ELSE [p0 EXCEPT !.dest_reg = f9, !.src_reg1 = f6,
                              !.src_reg2 = instruction % 8,
                              !.immediate = 0]
         [] opcode = NOT ->
              [p0 EXCEPT !.dest_reg = f9, !.src_reg1 = f6, !.src_reg2 = 0,
                         !.immediate = 0]
         [] opcode \in {LD, LDI, LEA, ST, STI} ->
              [p0 EXCEPT !.dest_reg = f9, !.src_reg1 = 0, !.src_reg2 = 0,
                         !.immediate = instruction % 512,
                         !.needs_memory = opcode \in {LD, LDI, ST, STI},
                         !.is_load = opcode \in {LD, LDI},
                         !.is_store = opcode \in {ST, STI}]
         [] opcode \in {LDR, STR} ->
              [p0 EXCEPT !.dest_reg = f9, !.src_reg1 = f6, !.src_reg2 = 0,
                         !.immediate = instruction % 64,
                         !.needs_memory = TRUE,
                         !.is_load = (opcode = LDR),
                         !.is_store = (opcode = STR)]
         [] opcode = BR ->
              [p0 EXCEPT !.dest_reg = 0, !.src_reg1 = 0, !.src_reg2 = 0,
                         !.immediate = instruction % 512,
                         !.is_branch = TRUE]
         [] opcode \in {JMP, JSR} ->
              [p0 EXCEPT !.dest_reg = 0, !.src_reg1 = f6, !.src_reg2 = 0,
                         !.immediate = instruction % 2048,
                         !.is_branch = TRUE]
         [] OTHER -> p0

lc3_check_data_hazard_wawfirst(current, previous) ==
    IF current.dest_reg # 0 /\ previous.dest_reg # 0
        /\ current.dest_reg = previous.dest_reg
    THEN LC3_HAZARD_DATA_WAW
    ELSE IF previous.dest_reg # 0
             /\ (current.src_reg1 = previous.dest_reg
                  \/ current.src_reg2 = previous.dest_reg)
    THEN LC3_HAZARD_DATA_RAW
    ELSE IF current.dest_reg # 0
             /\ (previous.src_reg1 = current.dest_reg
                  \/ previous.src_reg2 = current.dest_reg)
    THEN LC3_HAZARD_DATA_WAR
    ELSE LC3_HAZARD_NONE

\* control_store.c:231-254
lc3_check_data_hazard(current, previous) ==
    IF previous.dest_reg # 0
        /\ (current.src_reg1 = previous.dest_reg
             \/ current.src_reg2 = previous.dest_reg)
    THEN LC3_HAZARD_DATA_RAW
    ELSE IF current.dest_reg # 0 /\ previous.dest_reg # 0
             /\ current.dest_reg = previous.dest_reg
    THEN LC3_HAZARD_DATA_WAW
    ELSE IF current.dest_reg # 0
             /\ (previous.src_reg1 = current.dest_reg
                  \/ previous.src_reg2 = current.dest_reg)
    THEN LC3_HAZARD_DATA_WAR
    ELSE LC3_HAZARD_NONE

\* control_store.c:283: packet->hazards[packet->num_hazards++] = hazard.
\* With num_hazards < 4 the hazard is stored and counted.  With
\* num_hazards >= 4 the store lands behind the array, on the members that
\* follow it (num_hazards, stalled): what they hold afterwards is not
\* defined.  `u` is the outcome taken: the count ends as the stored hazard
\* value or as the incremented index, and the flag is cleared by the store
\* or keeps its value.
RecordHazard(packet, hazard, u) ==
    IF packet.num_hazards < HAZARD_SLOTS
    THEN [packet EXCEPT !.hazards[packet.num_hazards] = hazard,
                        !.num_hazards = @ + 1]
    ELSE [packet EXCEPT
            !.num_hazards = IF u.by_store THEN hazard ELSE (@ + 1) % 256,
            !.stalled = IF u.flag_kept THEN @ ELSE FALSE]

HazardOverflow == [by_store : BOOLEAN, flag_kept : BOOLEAN]

NoOverflow == [by_store |-> FALSE, flag_kept |-> TRUE]

\* some packet in a DECODE slot may run past hazards[] in the next cycle
MayOverflow(pm) ==
    \E s \in 0..(PIPELINE_SLOTS - 1) :
        /\ s < pm.config.depth
        /\ pm.config.stages[s] = LC3_STAGE_DECODE
        /\ pm.pipeline[s].instruction # 0
        /\ pm.pipeline[s].num_hazards + (pm.config.depth - 1 - s)
             > HAZARD_SLOTS

HazardStep_anymode(pm, stage, i, u) ==
    LET packet == pm.pipeline[stage]
        hazard == lc3_check_data_hazard(packet, pm.pipeline[i])
        recorded == RecordHazard(packet, hazard, u)
    IN IF hazard = LC3_HAZARD_NONE THEN pm
       ELSE [pm EXCEPT
               !.pipeline[stage] =
                   [recorded EXCEPT !.stalled = TRUE,
                                    !.stall_cycles = @ + 1],
               !.metrics.stall_cycles = @ + 1,
               !.metrics.data_hazards = @ + 1]

\* control_store.c:281-290: one iteration of the hazard loop, the packet in
\* slot `stage` against the packet in the deeper slot i
HazardStep(pm, stage, i, u) ==
    LET packet == pm.pipeline[stage]
        hazard == lc3_check_data_hazard(packet, pm.pipeline[i])
        recorded == RecordHazard(packet, hazard, u)
    IN IF hazard = LC3_HAZARD_NONE THEN pm
       ELSE IF ~pm.config.forwarding_enabled
       THEN [pm EXCEPT
               !.pipeline[stage] =
                   [recorded EXCEPT !.stalled = TRUE,
                                    !.stall_cycles = @ + 1],
               !.metrics.stall_cycles = @ + 1,
               !.metrics.data_hazards = @ + 1]
       ELSE [pm EXCEPT !.pipeline[stage] = recorded]

\* control_store.c:280-292: the loop over the deeper stages i..depth-1 for
\* the packet in slot `stage`
RECURSIVE HazardLoop(_, _, _, _)
HazardLoop(pm, stage, i, u) ==
    IF i >= pm.config.depth THEN pm
    ELSE HazardLoop(HazardStep(pm, stage, i, u), stage, i + 1, u)

\* control_store.c:278-297, case LC3_STAGE_DECODE
StageDecode(pm, stage, u) ==
    LET pm1 == HazardLoop(pm, stage, stage + 1, u)
    IN IF ~pm1.pipeline[stage].stalled
       THEN [pm1 EXCEPT
               !.pipeline[stage].stage_completed[LC3_STAGE_DECODE] = TRUE]
       ELSE pm1

\* control_store.c:299-307, case LC3_STAGE_EXECUTE
StageExecute(pm, stage) ==
    LET packet == pm.pipeline[stage]
        pm1 == IF packet.is_branch
               THEN [pm EXCEPT
                       !.metrics.control_hazards = @ + 1,
                       !.metrics.stall_cycles =
                           IF ~pm.config.branch_prediction_enabled
                           THEN @ + pm.config.branch_penalty ELSE @]
               ELSE pm
    IN [pm1 EXCEPT
          !.pipeline[stage].stage_completed[LC3_STAGE_EXECUTE] = TRUE]

\* control_store.c:309-319, case LC3_STAGE_MEMORY
StageMemory(pm, stage) ==
    LET packet == pm.pipeline[stage]
        pm1 == IF packet.needs_memory
               THEN [pm EXCEPT
                       !.metrics.memory_stall_cycles =
                           @ + pm.config.memory_latency,
                       !.metrics.memory_reads =
                           IF packet.is_load THEN @ + 1 ELSE @,
                       !.metrics.memory_writes =
                           IF ~packet.is_load /\ packet.is_store
                           THEN @ + 1 ELSE @]
               ELSE pm
    IN [pm1 EXCEPT
          !.pipeline[stage].stage_completed[LC3_STAGE_MEMORY] = TRUE]

StageWriteback_twice(pm, stage) ==
    [pm EXCEPT !.metrics.total_instructions = @ + 2,
               !.pipeline[stage] = lc3_instruction_packet_init]

\* control_store.c:321-328, case LC3_STAGE_WRITEBACK: the slot is cleared
\* after the completion has been counted
StageWriteback(pm, stage) ==
    [pm EXCEPT !.metrics.total_instructions = @ + 1,
               !.pipeline[stage] = lc3_instruction_packet_init]

AdvancePacket_stay(pm, stage) == pm

AdvancePacket_overwrite(pm, stage) ==
    IF ~pm.pipeline[stage].stalled /\ stage < pm.config.depth - 1
    THEN [pm EXCEPT !.pipeline[stage + 1] = pm.pipeline[stage],
                    !.pipeline[stage] = lc3_instruction_packet_init]
    ELSE pm

\* control_store.c:333-339: advance into the next slot when it is empty
AdvancePacket(pm, stage) ==
    IF ~pm.pipeline[stage].stalled /\ stage < pm.config.depth - 1
        /\ pm.pipeline[stage + 1].instruction = 0
    THEN [pm EXCEPT !.pipeline[stage + 1] = pm.pipeline[stage],
                    !.pipeline[stage] = lc3_instruction_packet_init]
    ELSE pm

\* control_store.c:266-340: the body of the loop for one stage
CycleStage(pm, stage, u) ==
    IF pm.pipeline[stage].instruction = 0 THEN pm
    ELSE LET current_stage == pm.config.stages[stage]
             pm1 ==
               CASE current_stage = LC3_STAGE_FETCH ->
                      [pm EXCEPT
                         !.pipeline[stage].stage_completed[LC3_STAGE_FETCH]
                            = TRUE]
                 [] current_stage = LC3_STAGE_DECODE ->
                      StageDecode(pm, stage, u)
                 [] current_stage = LC3_STAGE_EXECUTE ->
                      StageExecute(pm, stage)
                 [] current_stage = LC3_STAGE_MEMORY ->
                      StageMemory(pm, stage)
                 [] current_stage = LC3_STAGE_WRITEBACK ->
                      StageWriteback(pm, stage)
                 [] OTHER -> pm
         IN AdvancePacket(pm1, stage)

\* control_store.c:266: for (stage = depth - 1; stage >= 0; stage--)
RECURSIVE CycleFrom(_, _, _)
CycleFrom(pm, stage, u) ==
    IF stage < 0 THEN pm
    ELSE CycleFrom(CycleStage(pm, stage, u), stage - 1, u)

\* the loop of control_store.c:266 from slot `stage` down to slot `last`:
\* with last = s + 1 the result is what the loop has made of the pipeline
\* when it reaches slot s
RECURSIVE CycleBetween(_, _, _, _)
CycleBetween(pm, stage, last, u) ==
    IF stage < last THEN pm
    ELSE CycleBetween(CycleStage(pm, stage, u), stage - 1, last, u)

\* control_store.c:266-267 with depth > 8: the loop starts at
\* &lc3_pipeline[depth - 1], behind the array of 8 packets, and
\* lc3_pipeline_config.stages[depth - 1] is read behind the array of 8
\* stages.  What those reads find is not defined: `u` supplies the packet
\* and the stage found there.
BeyondPackets ==
    { lc3_instruction_packet_init,
      [lc3_instruction_packet_init EXCEPT !.instruction = 1,
                                          !.dest_reg = 1] }

BeyondStages == {LC3_STAGE_WRITEBACK, LC3_STAGE_CUSTOM}

NoBeyond ==
    [beyond |-> lc3_instruction_packet_init, beyond_stage |-> LC3_STAGE_CUSTOM]

\* the slots the loop of lc3_pipeline_cycle visits (control_store.c:266)
CycleSlots(pm) ==
    IF pm.enabled THEN 0..(pm.config.depth - 1) ELSE {}

\* the arrays as the loop sees them: the 8 elements followed by what lies
\* behind them
WithBeyond(pm, u) ==
    IF pm.config.depth <= PIPELINE_SLOTS THEN pm
    ELSE [pm EXCEPT
            !.pipeline =
                [s \in 0..(pm.config.depth - 1) |->
                    IF s < PIPELINE_SLOTS THEN pm.pipeline[s] ELSE u.beyond],
            !.config.stages =
                [s \in 0..(pm.config.depth - 1) |->
                    IF s < PIPELINE_SLOTS THEN pm.config.stages[s]
                    ELSE u.beyond_stage]]

\* the globals after the call: what was written behind the arrays is not
\* part of them
WithoutBeyond(pm) ==
    [pm EXCEPT
        !.pipeline = [s \in 0..(PIPELINE_SLOTS - 1) |-> pm.pipeline[s]],
        !.config.stages =
            [s \in 0..(PIPELINE_SLOTS - 1) |-> pm.config.stages[s]]]

lc3_pipeline_cycle_uncounted(pm, u) ==
    IF ~pm.enabled THEN pm
    ELSE WithoutBeyond(
             CycleFrom(WithBeyond([pm EXCEPT !.cycle = @ + 1], u),
                       pm.config.depth - 1, u))

\* control_store.c:259-341
lc3_pipeline_cycle(pm, u) ==
    IF ~pm.enabled THEN pm
    ELSE WithoutBeyond(
             CycleFrom(WithBeyond([pm EXCEPT !.cycle = @ + 1,
                                             !.metrics.total_cycles = @ + 1],
                                  u),
                       pm.config.depth - 1, u))

lc3_pipeline_issue_instruction_latestamp(pm, instruction, pc) ==
    IF ~pm.enabled THEN pm
    ELSE IF pm.pipeline[0].instruction # 0
    THEN [pm EXCEPT !.metrics.stall_cycles = @ + 1,
                    !.metrics.structural_hazards = @ + 1]
    ELSE [pm EXCEPT
            !.pipeline[0] =
                [lc3_decode_instruction(lc3_instruction_packet_init,
                                        instruction, pc)
                   EXCEPT !.issue_cycle = pm.cycle + 1]]

\* control_store.c:346-361
lc3_pipeline_issue_instruction(pm, instruction, pc) ==
    IF ~pm.enabled THEN pm
    ELSE IF pm.pipeline[0].instruction # 0
    THEN [pm EXCEPT !.metrics.stall_cycles = @ + 1,
                    !.metrics.structural_hazards = @ + 1]
    ELSE [pm EXCEPT
            !.pipeline[0] =
                [lc3_decode_instruction(lc3_instruction_packet_init,
                                        instruction, pc)
                   EXCEPT !.issue_cycle = pm.cycle]]

----------------------------------------------------------------------------
(* Initial state: initialize_simulator (main.cpp:20-52) followed by a       *)
(* loaded image, then initialize_state_machine (state_machine.cpp:252-262). *)

\* main.cpp:38-51 plus the loaded image: a program word at the origin, data
\* words, a supervisor stack frame (return PC, user PSR) and an interrupt
\* vector.
InitMem ==
    (KBSR :> 0) @@ (KBDR :> 0) @@ (DSR :> 32768) @@ (DDR :> 0)
    @@ (PSR :> 32770) @@ (MCR :> 32768)
    @@ (GETC :> 12288) @@ (OUT :> 12544) @@ (PUTS :> 12800)
    @@ (TRAP_IN :> 13056) @@ (PUTSP :> 13312) @@ (HALT :> 13568)
    @@ (12288 :> 4129)      \* 0x3000: ADD R0,R0,#1
    @@ (12304 :> 171)       \* 0x3010: 0x00AB
    @@ (12305 :> 12306)     \* 0x3011: pointer to 0x3012
    @@ (12306 :> 32769)     \* 0x3012: 0x8001
    @@ (12320 :> 12290)     \* 0x3020: stacked PC 0x3002
    @@ (12321 :> 2)         \* 0x3021: stacked PSR, user mode, Z
    @@ (INTERRUPT_VECTOR_TABLE_ADDR :> 512)

\* Register files set through set_register before the run (R0..R7).
RegFiles ==
    { <<5, 65531, 32767, 32768, 12304, 65534, 12320, 0>>,
      <<0, 1, 65535, 12306, 12305, 65534, 12320, 12296>> }

\* Instruction words the harness places in IR.
Instrs ==
    {     0,    \* 0x0000 BR (no flag bits)
       4094,    \* 0x0FFE BRnzp #-2
       1026,    \* 0x0402 BRz #2
       2049,    \* 0x0801 BRn #1
       4129,    \* 0x1021 ADD R0,R0,#1
       4735,    \* 0x127F ADD R1,R1,#-1
       4162,    \* 0x1042 ADD R0,R1,R2
       5251,    \* 0x1483 ADD R2,R2,R3
       5281,    \* 0x14A1 ADD R2,R2,#1
       8719,    \* 0x220F LD R1,#15
      12303,    \* 0x300F ST R0,#15
      18434,    \* 0x4802 JSR #2
      20478,    \* 0x4FFE JSR #-2
      16640,    \* 0x4100 JSRR R4
      16832,    \* 0x41C0 JSRR R7
      20512,    \* 0x5020 AND R0,R0,#0
      20546,    \* 0x5042 AND R0,R1,R2
      25344,    \* 0x6300 LDR R1,R4,#0
      25409,    \* 0x6341 LDR R1,R5,#1
      28992,    \* 0x7140 STR R0,R5,#0
      32768,    \* 0x8000 RTI
      36927,    \* 0x903F NOT R0,R0
      41488,    \* 0xA210 LDI R1,#16
      45072,    \* 0xB010 STI R0,#16
      49600,    \* 0xC1C0 JMP R7
      49408,    \* 0xC100 JMP R4
      53248,    \* 0xD000 reserved opcode
      57359,    \* 0xE00F LEA R0,#15
      61477 }   \* 0xF025 TRAP x25

NoState == 64
NoLink == 0 - 1

\* The sequencer's part of the initial state, for register files rfs and
\* the words irs that IR may hold when state_machine is entered.
InitSM(rfs, irs) ==
    /\ pointer_counter = USER_SPACE_ADDR
    /\ instruction_reg \in irs
    /\ mem_addr_reg = 0
    /\ mem_data_reg = 0
    /\ \E rf \in rfs : reg = [i \in 0..7 |-> rf[i + 1]]
    /\ mem = InitMem
    /\ N = 0 /\ Z = 1 /\ P = 0
    /\ BEN = 0 /\ INT = 0 /\ R = 0 /\ ACV = 0
    /\ PSR_15 = 1
    /\ current_state = FETCH1
    /\ machine_halted = FALSE
    /\ machine_error = FALSE
    /\ prev_state = NoState
    /\ fetch_pc = pointer_counter
    /\ snap = AS
    /\ jsr_link = NoLink
    /\ ticks = 0

\* no SEXT evaluation under way
ExtIdle ==
    /\ ext_arg = 0
    /\ ext_bit = 0
    /\ ext_res = << >>

NoCall == [op |-> "none"]

\* the pipeline globals before any call (control_store.c:11-15)
PipeIdle ==
    /\ lc3_pipeline_config = ZeroConfig
    /\ lc3_pipeline_metrics = lc3_pipeline_metrics_reset
    /\ lc3_pipeline = ZeroPipeline
    /\ lc3_current_cycle = 0
    /\ lc3_pipeline_enabled = FALSE
    /\ pipe_call = NoCall
    /\ pipe_calls = 0
    /\ issue_calls = 0
    /\ retired = << >>
    /\ held = {}

\* state_machine entered directly, no command loop around it
MainIdle ==
    /\ pipeline_mode = FALSE
    /\ main_pc = "state_machine"
    /\ old_pc = 0
    /\ executed = 0

Init ==
    /\ InitSM(RegFiles, {0})
    /\ ExtIdle
    /\ PipeIdle
    /\ MainIdle

----------------------------------------------------------------------------
(* One iteration of the loop of state_machine (state_machine.cpp:36-53):    *)
(* run the action routine, compute the next state, test the halt            *)
(* conditions, then the PC guard.                                           *)

\* mem[] has UINT16_MAX words (mem/memory.h:6, core/memory/memory.cpp:13)
MemLen == UINT16_MAX

\* the routines whose only memory access is mem[MAR], MAR left as it is
MarAccessStates == {4, 13, 16, 25, 28, 34, 35, 37, 39, 41, 44}

\* the indices into mem[] that the action routine of state cs uses
MemIndexes(s, cs) ==
    IF cs \in MarAccessStates \cup {11, 40} THEN {s.mar}
    ELSE IF cs = 8 /\ s.PSR_15 # 0
    THEN {s.reg[6], Add16(s.reg[6], 1), PSR}
    ELSE IF cs = 46 /\ s.INT # 0 /\ s.PSR_15 = 0
    THEN {Dec16(s.reg[6]), Dec16(Dec16(s.reg[6])), PSR,
          INTERRUPT_VECTOR_TABLE_ADDR}
    ELSE IF cs = 15 THEN {ZEXT(s.ir, 7)}
    ELSE {}

\* An index >= MemLen is outside the array: the access is undefined and
\* reads whatever object follows mem[].  The model keeps that word under
\* index MemLen and lets it hold any of BeyondWords when it is read.
OutOfArray(s, cs) == \E i \in MemIndexes(s, cs) : i >= MemLen

BeyondWords == {0, 32768, 65535}

BeyondChoices ==
    IF OutOfArray(AS, current_state) THEN BeyondWords ELSE {0}

\* One iteration of the loop; u is the word found behind the array when the
\* routine reads there.
TickCore(u) ==
    /\ should_continue_execution
    /\ LET s0 == IF OutOfArray(AS, current_state)
                 THEN [AS EXCEPT !.mem = MemWrite(mem, MemLen, u)]
                 ELSE AS
           s1 == execute_current_state(s0, current_state)
           nxt == get_next_state(s1, current_state)
           err1 == machine_error
                     \/ (current_state = DECODE /\ decode_sets_error(s1))
           hc == check_halt_conditions(s1, err1)
           stopped == hc.halted \/ hc.error
       IN /\ pointer_counter' = s1.pc
          /\ instruction_reg' = s1.ir
          /\ mem_addr_reg' = s1.mar
          /\ mem_data_reg' = s1.mdr
          /\ reg' = s1.reg
          /\ mem' = s1.mem
          /\ N' = s1.N /\ Z' = s1.Z /\ P' = s1.P
          /\ BEN' = s1.BEN /\ INT' = s1.INT /\ R' = s1.R /\ ACV' = s1.ACV
          /\ PSR_15' = s1.PSR_15
          /\ current_state' = nxt
          /\ machine_halted' = hc.halted
          /\ machine_error' =
               (hc.error \/ (~stopped /\ s1.pc > UINT16_MAX))
          /\ prev_state' = current_state
          /\ fetch_pc' =
               IF current_state = FETCH1 THEN pointer_counter ELSE fetch_pc
          /\ snap' = IF current_state = DECODE THEN s1 ELSE snap
          /\ jsr_link' =
               IF current_state = JSR_STATE THEN Add16(fetch_pc, 1)
               ELSE IF s1.reg[7] # reg[7] THEN NoLink
               ELSE jsr_link

Tick ==
    /\ ticks < MaxTicks
    /\ \E u \in BeyondChoices : TickCore(u)
    /\ ticks' = ticks + 1
    /\ UNCHANGED <<ext_vars, pipe_vars, main_vars>>

\* the harness places one of the words irs in IR between instructions
HarnessSetIRFrom(irs) ==
    /\ should_continue_execution
    /\ current_state = FETCH1
    /\ \E ir \in irs : instruction_reg' = ir
    /\ UNCHANGED <<pointer_counter, mem_addr_reg, mem_data_reg, reg, mem, N,
                   Z, P, BEN, INT, R, ACV, PSR_15, current_state,
                   machine_halted, machine_error, prev_state, fetch_pc, snap,
                   jsr_link, ticks>>

\* instruction_reg is a global (mem/register.h:11) that no microstate on the
\* sequencer's path writes; the harness driving the sequencer places the
\* instruction word there between instructions.
HarnessSetIR ==
    /\ HarnessSetIRFrom(Instrs)
    /\ UNCHANGED <<ext_vars, pipe_vars, main_vars>>

\* INT (signals.cpp:4) is raised by a device; the sequencer reads it only in
\* the FETCH1 transition and in state 46.
RaiseInterrupt ==
    /\ should_continue_execution
    /\ current_state = FETCH1
    /\ INT = 0
    /\ INT' = 1
    /\ UNCHANGED <<pointer_counter, instruction_reg, mem_addr_reg,
                   mem_data_reg, reg, mem, N, Z, P, BEN, R, ACV, PSR_15,
                   current_state, machine_halted, machine_error, prev_state,
                   fetch_pc, snap, jsr_link, ticks>>
    /\ UNCHANGED <<ext_vars, pipe_vars, main_vars>>

Next == Tick \/ HarnessSetIR \/ RaiseInterrupt

Spec == Init /\ [][Next]_vars

----------------------------------------------------------------------------
(* The loop of state_machine left to run for as long as it runs: the tick   *)
(* counter of the model is not kept, and IR holds one of a few words whose  *)
(* execution keeps PC within a few addresses.  The loop                     *)
(* (state_machine.cpp:36-53) executes its next iteration whenever           *)
(* should_continue_execution holds, hence the weak fairness of TickFree.    *)

LoopInstrs ==
    { 49408,    \* 0xC100 JMP R4
      49600,    \* 0xC1C0 JMP R7
      28992,    \* 0x7140 STR R0,R5,#0
      53248 }   \* 0xD000 reserved opcode

InitLoop ==
    /\ InitSM(RegFiles, LoopInstrs)
    /\ ExtIdle
    /\ PipeIdle
    /\ MainIdle

TickFree ==
    /\ \E u \in BeyondChoices : TickCore(u)
    /\ UNCHANGED <<ticks, ext_vars, pipe_vars, main_vars>>

HarnessSetLoopIR ==
    /\ HarnessSetIRFrom(LoopInstrs)
    /\ UNCHANGED <<ext_vars, pipe_vars, main_vars>>

NextLoop == TickFree \/ HarnessSetLoopIR

SpecLoop == InitLoop /\ [][NextLoop]_vars /\ WF_vars(TickFree)

----------------------------------------------------------------------------
(* SEXT (ext.cpp:9-17) on its own: the argument and the sign-bit index are  *)
(* drawn at the start, then the function is applied to the argument and     *)
(* once more to its result.                                                 *)

ExtArgs ==
    { (Pow2(i) + d + WORD) % WORD : i \in 0..16, d \in (0 - ExtSpan)..ExtSpan }
      \cup {21845, 43690, 255, 65280, 3855, 61680}

InitExt ==
    /\ InitSM({<<0, 0, 0, 0, 0, 0, 0, 0>>}, {0})
    /\ ext_arg \in ExtArgs
    /\ ext_bit \in 0..15
    /\ ext_res = << >>
    /\ PipeIdle
    /\ MainIdle

ApplySEXT ==
    /\ Len(ext_res) < 2
    /\ ext_res' =
         Append(ext_res,
                SEXT(IF ext_res = << >> THEN ext_arg
                     ELSE ext_res[Len(ext_res)],
                     ext_bit))
    /\ UNCHANGED <<sm_vars, ticks, ext_arg, ext_bit, pipe_vars, main_vars>>

NextExt == ApplySEXT

SpecExt == InitExt /\ [][NextExt]_vars

----------------------------------------------------------------------------
(* The pipeline model driven through its interface (control_store.h:        *)
(* 143-148): any sequence of init, reset, configure, cycle and issue calls. *)

\* Instruction words handed to lc3_pipeline_issue_instruction.
PipeInstrs ==
    {     0,    \* 0x0000 BR (no flag bits)
       4640,    \* 0x1220 ADD R1,R0,#0
       5185,    \* 0x1441 ADD R2,R1,R1
      25153,    \* 0x6241 LDR R1,R1,#1
      28736,    \* 0x7040 STR R0,R1,#0
       3585 }   \* 0x0E01 BRnzp #1

\* Configurations handed to lc3_pipeline_configure: the default one and the
\* default one with forwarding switched off.
DefaultConfig == lc3_pipeline_config_init_default(ZeroConfig)

\* a configuration of more than 8 stages, which lc3_pipeline_configure
\* stores like any other
DeepConfig == [DefaultConfig EXCEPT !.name = "nine stages", !.depth = 9]

Configs ==
    { DefaultConfig,
      [DefaultConfig EXCEPT !.name = "no forwarding",
                            !.forwarding_enabled = FALSE],
      DeepConfig }

\* the outcomes of one cycle call that the code leaves open
CycleChoices(pm) ==
    { [by_store |-> o.by_store, flag_kept |-> o.flag_kept,
       beyond |-> b.beyond, beyond_stage |-> b.beyond_stage] :
        o \in (IF MayOverflow(pm) THEN HazardOverflow
                ELSE {NoOverflow}),
        b \in (IF pm.enabled /\ pm.config.depth > PIPELINE_SLOTS
                THEN [beyond : BeyondPackets, beyond_stage : BeyondStages]
                ELSE {NoBeyond}) }

\* history of one cycle call: the packets stamped with a completion cycle
\* (control_store.c:321), deepest slot first, as they are before the slot
\* is cleared
RECURSIVE Retiring(_, _)
Retiring(pm, stage) ==
    IF stage < 0 THEN << >>
    ELSE LET packet == pm.pipeline[stage]
             rest == Retiring(pm, stage - 1)
         IN IF packet.instruction # 0
                /\ pm.config.stages[stage] = LC3_STAGE_WRITEBACK
            THEN << [pc |-> packet.pc, instruction |-> packet.instruction,
                     issue_cycle |-> packet.issue_cycle,
                     completion_cycle |-> pm.cycle + 1,
                     stall_cycles |-> packet.stall_cycles] >> \o rest
            ELSE rest

InRangeDepth(pm) ==
    IF pm.config.depth <= PIPELINE_SLOTS THEN pm.config.depth
    ELSE PIPELINE_SLOTS

\* history of one cycle call: the packets that sit in the same slot before
\* and after it (stalled, or blocked by the slot ahead)
Held(pre, post) ==
    { pre.pipeline[s].pc : s \in
        { x \in 0..(InRangeDepth(pre) - 1) :
            /\ pre.enabled
            /\ pre.pipeline[x].instruction # 0
            /\ post.pipeline[x].instruction # 0
            /\ post.pipeline[x].pc = pre.pipeline[x].pc
            /\ post.pipeline[x].issue_cycle = pre.pipeline[x].issue_cycle } }

ObserveCycle(pre, post) ==
    /\ retired' =
         IF pre.enabled
         THEN retired \o Retiring(pre, InRangeDepth(pre) - 1)
         ELSE retired
    /\ held' = held \cup Held(pre, post)

ForgetHistory ==
    /\ retired' = << >>
    /\ held' = {}

\* the pipeline globals take the values of the record pm
SetPM(pm) ==
    /\ lc3_pipeline_config' = pm.config
    /\ lc3_pipeline_metrics' = pm.metrics
    /\ lc3_pipeline' = pm.pipeline
    /\ lc3_current_cycle' = pm.cycle
    /\ lc3_pipeline_enabled' = pm.enabled

InitPipe ==
    /\ InitSM({<<0, 0, 0, 0, 0, 0, 0, 0>>}, {0})
    /\ ExtIdle
    /\ PipeIdle
    /\ MainIdle

PipeInit ==
    /\ pipe_calls < MaxPipeCalls
    /\ SetPM(lc3_pipeline_init(PM))
    /\ ForgetHistory
    /\ pipe_call' = [op |-> "init"]
    /\ pipe_calls' = pipe_calls + 1
    /\ UNCHANGED <<sm_vars, ticks, ext_vars, issue_calls, main_vars>>

PipeReset ==
    /\ pipe_calls < MaxPipeCalls
    /\ SetPM(lc3_pipeline_reset(PM))
    /\ ForgetHistory
    /\ pipe_call' = [op |-> "reset", cycle |-> lc3_current_cycle]
    /\ pipe_calls' = pipe_calls + 1
    /\ UNCHANGED <<sm_vars, ticks, ext_vars, issue_calls, main_vars>>

PipeConfigure ==
    /\ pipe_calls < MaxPipeCalls
    /\ \E config \in Configs :
         /\ SetPM(lc3_pipeline_configure(PM, config))
         /\ pipe_call' = [op |-> "configure", config |-> config]
    /\ ForgetHistory
    /\ pipe_calls' = pipe_calls + 1
    /\ UNCHANGED <<sm_vars, ticks, ext_vars, issue_calls, main_vars>>

PipeCycle ==
    /\ pipe_calls < MaxPipeCalls
    /\ \E u \in CycleChoices(PM) :
         LET cycled == lc3_pipeline_cycle(PM, u)
         IN SetPM(cycled) /\ ObserveCycle(PM, cycled)
    /\ pipe_call' = [op |-> "cycle"]
    /\ pipe_calls' = pipe_calls + 1
    /\ UNCHANGED <<sm_vars, ticks, ext_vars, issue_calls, main_vars>>

\* the caller issues the words of a program in order, from 0x3000 on
PipeIssue ==
    /\ pipe_calls < MaxPipeCalls
    /\ \E instruction \in PipeInstrs :
         LET pc == Add16(USER_SPACE_ADDR, issue_calls)
         IN /\ SetPM(lc3_pipeline_issue_instruction(PM, instruction, pc))
            /\ pipe_call' = [op |-> "issue", instruction |-> instruction,
                             pc |-> pc]
    /\ pipe_calls' = pipe_calls + 1
    /\ issue_calls' = issue_calls + 1
    /\ UNCHANGED <<sm_vars, ticks, ext_vars, retired, held, main_vars>>

NextPipe == PipeInit \/ PipeReset \/ PipeConfigure \/ PipeCycle \/ PipeIssue

SpecPipe == InitPipe /\ [][NextPipe]_vars

----------------------------------------------------------------------------
(* The benchmark of pipeline_demo_integrated.c:95-130                       *)
(* (demo_pipeline_performance): the pipeline is reset and given the default *)
(* configuration, one instruction is issued before each cycle, and depth    *)
(* further cycles drain the pipeline.  The number of instructions (100 in   *)
(* the demo) is any number up to MaxFlow.                                   *)

\* the non-branch instruction words the loop issues
FlowInstrs ==
    {  4640,    \* 0x1220 ADD R1,R0,#0
       4641,    \* 0x1221 ADD R1,R0,#1
       5185,    \* 0x1441 ADD R2,R1,R1
      25153,    \* 0x6241 LDR R1,R1,#1
      28736 }   \* 0x7040 STR R0,R1,#0

\* pipeline_demo_integrated.c:99-100 after the lc3_pipeline_init of
\* demo_pipeline_basic (pipeline_demo_integrated.c:12-16)
InitFlow ==
    /\ InitSM({<<0, 0, 0, 0, 0, 0, 0, 0>>}, {0})
    /\ ExtIdle
    /\ MainIdle
    /\ LET pm0 == [config |-> ZeroConfig,
                   metrics |-> lc3_pipeline_metrics_reset,
                   pipeline |-> ZeroPipeline, cycle |-> 0,
                   enabled |-> FALSE]
           pm1 == lc3_pipeline_reset(lc3_pipeline_init(pm0))
           pm == [pm1 EXCEPT
                    !.config = lc3_pipeline_config_init_default(@)]
       IN /\ lc3_pipeline_config = pm.config
          /\ lc3_pipeline_metrics = pm.metrics
          /\ lc3_pipeline = pm.pipeline
          /\ lc3_current_cycle = pm.cycle
          /\ lc3_pipeline_enabled = pm.enabled
    /\ pipe_call = NoCall
    /\ pipe_calls = 0
    /\ issue_calls = 0
    /\ retired = << >>
    /\ held = {}

\* pipeline_demo_integrated.c:105-109: one iteration of the loop, an issue
\* followed by a cycle
FlowIssue ==
    /\ pipe_call.op \in {"none", "loop"}
    /\ issue_calls < MaxFlow
    /\ \E instruction \in FlowInstrs :
         LET pc == Add16(USER_SPACE_ADDR, issue_calls)
             issued == lc3_pipeline_issue_instruction(PM, instruction, pc)
         IN /\ \E u \in CycleChoices(issued) :
                 LET cycled == lc3_pipeline_cycle(issued, u)
                 IN SetPM(cycled) /\ ObserveCycle(issued, cycled)
            /\ pipe_call' = [op |-> "loop", instruction |-> instruction,
                             pc |-> pc]
    /\ pipe_calls' = pipe_calls + 2
    /\ issue_calls' = issue_calls + 1
    /\ UNCHANGED <<sm_vars, ticks, ext_vars, main_vars>>

\* pipeline_demo_integrated.c:112-114: one iteration of the draining loop
FlowDrain ==
    /\ \/ pipe_call.op = "loop"
       \/ pipe_call.op = "drain" /\ pipe_call.i < lc3_pipeline_config.depth
    /\ \E u \in CycleChoices(PM) :
         LET cycled == lc3_pipeline_cycle(PM, u)
         IN SetPM(cycled) /\ ObserveCycle(PM, cycled)
    /\ pipe_call' = [op |-> "drain",
                     i |-> IF pipe_call.op = "drain" THEN pipe_call.i + 1
                           ELSE 1]
    /\ pipe_calls' = pipe_calls + 1
    /\ UNCHANGED <<sm_vars, ticks, ext_vars, issue_calls, main_vars>>

NextFlow == FlowIssue \/ FlowDrain

SpecFlow == InitFlow /\ [][NextFlow]_vars

----------------------------------------------------------------------------
(* lc3_check_data_hazard (control_store.c:232-254) on its own: the packet   *)
(* in the DECODE slot against the packet in the slot behind it, for every   *)
(* choice of their register fields in 0..MaxReg.  A cleared slot is the     *)
(* choice of all fields 0.                                                  *)

HazPackets ==
    { [lc3_instruction_packet_init EXCEPT !.dest_reg = d, !.src_reg1 = a,
                                          !.src_reg2 = b] :
        d \in 0..MaxReg, a \in 0..MaxReg, b \in 0..MaxReg }

InitHaz ==
    /\ InitSM({<<0, 0, 0, 0, 0, 0, 0, 0>>}, {0})
    /\ ExtIdle
    /\ MainIdle
    /\ lc3_pipeline_config = DefaultConfig
    /\ lc3_pipeline_metrics = lc3_pipeline_metrics_reset
    /\ \E current \in HazPackets, previous \in HazPackets :
         lc3_pipeline = [ZeroPipeline EXCEPT ![1] = current, ![2] = previous]
    /\ lc3_current_cycle = 0
    /\ lc3_pipeline_enabled = TRUE
    /\ pipe_call = NoCall
    /\ pipe_calls = 0
    /\ issue_calls = 0
    /\ retired = << >>
    /\ held = {}

\* control_store.c:281: hazard = lc3_check_data_hazard(packet, &lc3_pipeline[i])
CheckHazard ==
    /\ pipe_call = NoCall
    /\ pipe_call' =
         [op |-> "check",
          hazard |-> lc3_check_data_hazard(lc3_pipeline[1], lc3_pipeline[2])]
    /\ pipe_calls' = pipe_calls + 1
    /\ UNCHANGED <<sm_vars, ticks, ext_vars, lc3_pipeline_config,
                   lc3_pipeline_metrics, lc3_pipeline, lc3_current_cycle,
                   lc3_pipeline_enabled, issue_calls, retired, held,
                   main_vars>>

NextHaz == CheckHazard

SpecHaz == InitHaz /\ [][NextHaz]_vars

----------------------------------------------------------------------------
(* The pipeline with forwarding switched off, as demo_pipeline_hazards      *)
(* sets it up (pipeline_demo_integrated.c:55-58), then driven by issue and  *)
(* cycle calls in any order: on the default stage list, and on a stage      *)
(* list that uses all 8 entries of stages[] (control_store.h:50).           *)

\* 0x1220 writes R1 and 0x1441 reads it (pipeline_demo_integrated.c:62-63
\* has the same pair on R1); 0x1620 shares no register with either
StallInstrs ==
    { 4640,    \* 0x1220 ADD R1,R0,#0
      5185,    \* 0x1441 ADD R2,R1,R1
      5664 }   \* 0x1620 ADD R3,R0,#0

\* FETCH, DECODE, EXECUTE, MEMORY, three CUSTOM stages, WRITEBACK
LongConfig ==
    [DefaultConfig EXCEPT
        !.name = "eight stages",
        !.stages = [i \in 0..(PIPELINE_SLOTS - 1) |->
                      IF i = 0 THEN LC3_STAGE_FETCH
                      ELSE IF i = 1 THEN LC3_STAGE_DECODE
                      ELSE IF i = 2 THEN LC3_STAGE_EXECUTE
                      ELSE IF i = 3 THEN LC3_STAGE_MEMORY
                      ELSE IF i = PIPELINE_SLOTS - 1
                      THEN LC3_STAGE_WRITEBACK
                      ELSE LC3_STAGE_CUSTOM],
        !.depth = PIPELINE_SLOTS]

InitStall ==
    /\ InitSM({<<0, 0, 0, 0, 0, 0, 0, 0>>}, {0})
    /\ ExtIdle
    /\ MainIdle
    /\ \E config \in {DefaultConfig, LongConfig} :
         LET pm == lc3_pipeline_configure(
                       lc3_pipeline_init(
                           [config |-> ZeroConfig,
                            metrics |-> lc3_pipeline_metrics_reset,
                            pipeline |-> ZeroPipeline, cycle |-> 0,
                            enabled |-> FALSE]),
                       [config EXCEPT !.forwarding_enabled = FALSE])
         IN /\ lc3_pipeline_config = pm.config
            /\ lc3_pipeline_metrics = pm.metrics
            /\ lc3_pipeline = pm.pipeline
            /\ lc3_current_cycle = pm.cycle
            /\ lc3_pipeline_enabled = pm.enabled
    /\ pipe_call = NoCall
    /\ pipe_calls = 0
    /\ issue_calls = 0
    /\ retired = << >>
    /\ held = {}

StallIssue ==
    /\ pipe_calls < MaxStallCalls
    /\ \E instruction \in StallInstrs :
         LET pc == Add16(USER_SPACE_ADDR, issue_calls)
         IN /\ SetPM(lc3_pipeline_issue_instruction(PM, instruction, pc))
            /\ pipe_call' = [op |-> "issue", instruction |-> instruction,
                             pc |-> pc]
    /\ pipe_calls' = pipe_calls + 1
    /\ issue_calls' = issue_calls + 1
    /\ UNCHANGED <<sm_vars, ticks, ext_vars, retired, held, main_vars>>

StallCycle ==
    /\ pipe_calls < MaxStallCalls
    /\ \E u \in CycleChoices(PM) :
         LET cycled == lc3_pipeline_cycle(PM, u)
         IN SetPM(cycled) /\ ObserveCycle(PM, cycled)
    /\ pipe_call' = [op |-> "cycle"]
    /\ pipe_calls' = pipe_calls + 1
    /\ UNCHANGED <<sm_vars, ticks, ext_vars, issue_calls, main_vars>>

NextStall == StallIssue \/ StallCycle

SpecStall == InitStall /\ [][NextStall]_vars

----------------------------------------------------------------------------
(* The command loop of src/main.cpp with the sequencer and the pipeline     *)
(* model under it: the step and run commands of run_interactive             *)
(* (main.cpp:141-156); the non-interactive path of main (main.cpp:280-287)  *)
(* calls state_machine exactly as the run command does.                     *)

\* Instruction words the harness places in IR under the command loop.
MainInstrs ==
    {  7038,    \* 0x1B7E ADD R5,R5,#-2
      28992,    \* 0x7140 STR R0,R5,#0
      53248 }   \* 0xD000 reserved opcode

\* initialize_simulator (main.cpp:20-59), then a loaded image; the prompt
\* of run_interactive is showing.
InitMain ==
    /\ InitSM({<<0, 0, 0, 0, 0, 0, 0, 0>>}, {0})
    /\ ExtIdle
    /\ pipeline_mode \in BOOLEAN
    /\ LET pm0 == [config |-> ZeroConfig,
                   metrics |-> lc3_pipeline_metrics_reset,
                   pipeline |-> ZeroPipeline, cycle |-> 0,
                   enabled |-> FALSE]
           pm1 == lc3_pipeline_init(pm0)
           pm2 == [pm1 EXCEPT
                     !.config = lc3_pipeline_config_init_default(@),
                     !.enabled = TRUE]
           pm == IF pipeline_mode THEN pm2 ELSE pm0
       IN /\ lc3_pipeline_config = pm.config
          /\ lc3_pipeline_metrics = pm.metrics
          /\ lc3_pipeline = pm.pipeline
          /\ lc3_current_cycle = pm.cycle
          /\ lc3_pipeline_enabled = pm.enabled
    /\ pipe_call = NoCall
    /\ pipe_calls = 0
    /\ issue_calls = 0
    /\ retired = << >>
    /\ held = {}
    /\ main_pc = "prompt"
    /\ old_pc = 0
    /\ executed = 0

\* initialize_state_machine (state_machine.cpp:252-262), called on entry of
\* state_machine
initialize_state_machine ==
    /\ current_state' = FETCH1
    /\ machine_halted' = FALSE
    /\ machine_error' = FALSE
    /\ Z' = IF N = 0 /\ Z = 0 /\ P = 0 THEN 1 ELSE Z
    /\ UNCHANGED <<pointer_counter, instruction_reg, mem_addr_reg,
                   mem_data_reg, reg, mem, N, P, BEN, INT, R, ACV, PSR_15,
                   prev_state, fetch_pc, snap, jsr_link, ticks>>

\* main.cpp:141-148 up to the entry of state_machine
CmdStep ==
    /\ main_pc = "prompt"
    /\ ticks < MaxTicks
    /\ old_pc' = pointer_counter
    /\ IF pipeline_mode /\ lc3_pipeline_enabled
       THEN LET issued == lc3_pipeline_issue_instruction(
                              PM, MemRead(mem, pointer_counter),
                              pointer_counter)
            IN /\ \E u \in CycleChoices(issued) :
                     LET cycled == lc3_pipeline_cycle(issued, u)
                     IN SetPM(cycled) /\ ObserveCycle(issued, cycled)
               /\ pipe_call' = [op |-> "cycle"]
               /\ pipe_calls' = pipe_calls + 2
               /\ issue_calls' = issue_calls + 1
       ELSE UNCHANGED pipe_vars
    /\ initialize_state_machine
    /\ main_pc' = "step"
    /\ UNCHANGED <<ext_vars, pipeline_mode, executed>>

\* main.cpp:152-154 up to the entry of state_machine
CmdRun ==
    /\ main_pc = "prompt"
    /\ ticks < MaxTicks
    /\ initialize_state_machine
    /\ main_pc' = "run"
    /\ UNCHANGED <<ext_vars, pipe_vars, pipeline_mode, old_pc, executed>>

\* one iteration of the loop of state_machine under a command
TickMain ==
    /\ main_pc \in {"step", "run"}
    /\ ticks < MaxTicks
    /\ \E u \in BeyondChoices : TickCore(u)
    /\ ticks' = ticks + 1
    /\ executed' = IF current_state = DECODE THEN executed + 1 ELSE executed
    /\ UNCHANGED <<ext_vars, pipe_vars, pipeline_mode, main_pc, old_pc>>

\* state_machine returns (state_machine.cpp:55); the step command then
\* bumps a PC that did not move (main.cpp:149)
ReturnMain ==
    /\ main_pc \in {"step", "run"}
    /\ ~should_continue_execution
    /\ pointer_counter' =
         IF main_pc = "step" /\ pointer_counter = old_pc
         THEN Add16(pointer_counter, 1) ELSE pointer_counter
    /\ main_pc' = "prompt"
    /\ UNCHANGED <<instruction_reg, mem_addr_reg, mem_data_reg, reg, mem, N,
                   Z, P, BEN, INT, R, ACV, PSR_15, current_state,
                   machine_halted, machine_error, prev_state, fetch_pc, snap,
                   jsr_link, ticks, ext_vars, pipe_vars, pipeline_mode,
                   old_pc, executed>>

HarnessSetMainIR ==
    /\ main_pc \in {"step", "run"}
    /\ HarnessSetIRFrom(MainInstrs)
    /\ UNCHANGED <<ext_vars, pipe_vars, main_vars>>

NextMain == CmdStep \/ CmdRun \/ TickMain \/ ReturnMain \/ HarnessSetMainIR

SpecMain == InitMain /\ [][NextMain]_vars

----------------------------------------------------------------------------
(* Vocabulary of the properties, stated on instruction fields and signed    *)
(* offsets rather than through the routines above.                          *)

Opcode4(ir) == ir \div 4096
FieldDR(ir) == (ir \div 512) % 8
FieldSR1(ir) == (ir \div 64) % 8
FieldSR2(ir) == ir % 8
Bit(ir, i) == (ir \div Pow2(i)) % 2

\* the low `width` bits of ir read as a two's-complement number
Signed(ir, width) ==
    LET low == ir % Pow2(width)
    IN IF low >= Pow2(width - 1) THEN low - Pow2(width) ELSE low

\* (a + d) mod 2^16 for a signed displacement d
Wrap(a, d) == (a + d + WORD) % WORD

\* exactly the flag matching the sign of the 16-bit value v is set
FlagsMatch(n, z, p, v) ==
    /\ n = (IF v >= 32768 THEN 1 ELSE 0)
    /\ z = (IF v = 0 THEN 1 ELSE 0)
    /\ p = (IF v > 0 /\ v < 32768 THEN 1 ELSE 0)

\* memories m1 and m2 agree everywhere except possibly at the addresses in S
SameMemExcept(m1, m2, S) ==
    \A a \in ((DOMAIN m1) \cup (DOMAIN m2)) \ S :
        MemRead(m1, a) = MemRead(m2, a)

\* a tick has just run the action of state cs
JustRan(cs) == prev_state = cs

\* the sequencer is back at FETCH1 after the instruction whose decode is in
\* snap, and that instruction had opcode op
BackAtFetch(op) ==
    /\ current_state = FETCH1
    /\ prev_state \notin {NoState, INTERRUPT_STATE}
    /\ Opcode4(snap.ir) = op

----------------------------------------------------------------------------
(* C1: starting at FETCH1 with PC = A (no interrupt, no ACV, MCR run bit    *)
(* set) the sequencer visits FETCH1, FETCH2, FETCH3, LOAD_IR, DECODE in     *)
(* that order, so that when the DECODE action is about to run IR = mem[A]   *)
(* and PC = A+1 mod 2^16.                                                   *)
C1_FetchSequence ==
    (current_state = DECODE /\ should_continue_execution) =>
        /\ prev_state = LOAD_IR
        /\ instruction_reg = MemRead(mem, fetch_pc)
        /\ pointer_counter = Wrap(fetch_pc, 1)

----------------------------------------------------------------------------
(* C2: after the DECODE tick, for every defined opcode the next state is    *)
(* the first state of that instruction's chain (the opcode number itself,   *)
(* except opcode 4: 21 when IR[11] = 1, 20 when IR[11] = 0) and the machine *)
(* keeps running; for opcode 0xD the error flag is set, the normal-halt     *)
(* flag is not, and state 63 never executes.                                *)
C2_FirstState(ir) ==
    LET op == Opcode4(ir)
    IN IF op = 4 THEN (IF Bit(ir, 11) = 1 THEN 21 ELSE 20)
       ELSE <<0, 1, 2, 3, 4, 5, 6, 7, 8, 9, 10, 11, 12, 13, 14, 15>>[op + 1]

C2_DecodeDispatch ==
    /\ JustRan(DECODE) =>
         IF Opcode4(instruction_reg) = 13
         THEN machine_error /\ ~machine_halted
         ELSE /\ current_state = C2_FirstState(instruction_reg)
              /\ ~machine_error /\ ~machine_halted
    /\ ~JustRan(UNKNOWN_INSTRUCTION)

C2_Witness ==
    /\ JustRan(DECODE)
    /\ Opcode4(instruction_reg) = 13
    /\ machine_error
    /\ ticks >= 4

----------------------------------------------------------------------------
(* C3: an RTI decoded while the privilege bit is 0 is treated as an unknown *)
(* opcode: the machine halts with an error.                                 *)
C3_UserRtiIsError ==
    (JustRan(DECODE) /\ Opcode4(instruction_reg) = 8 /\ PSR_15 = 0) =>
        machine_error

----------------------------------------------------------------------------
(* C4: when the sequencer is back at FETCH1 after a BR fetched from A, PC = *)
(* A+1+sext(IR[8:0]) if (N and IR[11]) or (Z and IR[10]) or (P and IR[9])   *)
(* held at decode, and PC = A+1 otherwise.                                  *)
C4_BranchTarget ==
    BackAtFetch(0) =>
        LET taken == \/ (snap.N = 1 /\ Bit(snap.ir, 11) = 1)
                     \/ (snap.Z = 1 /\ Bit(snap.ir, 10) = 1)
                     \/ (snap.P = 1 /\ Bit(snap.ir, 9) = 1)
        IN pointer_counter =
             IF taken THEN Wrap(fetch_pc, 1 + Signed(snap.ir, 9))
             ELSE Wrap(fetch_pc, 1)

----------------------------------------------------------------------------
(* C5: when the sequencer is back at FETCH1 after an LD decoded with        *)
(* PC = A+1, register DR holds mem[A+1+sext(IR[8:0])] and N/Z/P reflect the *)
(* sign of that value.                                                      *)
C5_LoadResult ==
    BackAtFetch(2) =>
        LET v == MemRead(snap.mem, Wrap(snap.pc, Signed(snap.ir, 9)))
        IN /\ reg[FieldDR(snap.ir)] = v
           /\ FlagsMatch(N, Z, P, v)

----------------------------------------------------------------------------
(* C6: when the sequencer is back at FETCH1 after an ST decoded with        *)
(* PC = A+1, the word at A+1+sext(IR[8:0]) equals register SR, and no other *)
(* memory word and no register has changed.                                 *)
C6_StoreResult ==
    BackAtFetch(3) =>
        LET a == Wrap(snap.pc, Signed(snap.ir, 9))
        IN /\ MemRead(mem, a) = snap.reg[FieldDR(snap.ir)]
           /\ SameMemExcept(mem, snap.mem, {a})
           /\ reg = snap.reg

----------------------------------------------------------------------------
(* C7: when the sequencer is back at FETCH1 after an STI decoded with       *)
(* PC = A+1, the word at the address stored in mem[A+1+sext(IR[8:0])]       *)
(* equals register SR, and no other memory word has changed.                *)
C7_StoreIndirectResult ==
    BackAtFetch(11) =>
        LET a == MemRead(snap.mem, Wrap(snap.pc, Signed(snap.ir, 9)))
        IN /\ MemRead(mem, a) = snap.reg[FieldDR(snap.ir)]
           /\ SameMemExcept(mem, snap.mem, {a})

----------------------------------------------------------------------------
(* C8: the ADD state sets DR = (SR1 + operand) mod 2^16, operand being      *)
(* sext(IR[4:0]) when IR[5] = 1 and SR2 otherwise, both read before DR is   *)
(* written; it sets exactly the flag matching the sign of the result and    *)
(* changes no other register, nor PC, nor memory.                           *)
C8_AddStep ==
    [][ (current_state = ADD_STATE /\ ticks' # ticks) =>
          LET ir == instruction_reg
              operand == IF Bit(ir, 5) = 1 THEN Signed(ir, 5)
                         ELSE reg[FieldSR2(ir)]
              result == Wrap(reg[FieldSR1(ir)], operand) % WORD
          IN /\ reg' = [reg EXCEPT ![FieldDR(ir)] = result]
             /\ FlagsMatch(N', Z', P', result)
             /\ pointer_counter' = pointer_counter
             /\ mem' = mem ]_vars

\* ADD R2,R2,R3 with R2 = 0x7FFF and R3 = 0x8000: DR is also SR1, the result
\* 0xFFFF is negative.
C8_Witness ==
    /\ JustRan(ADD_STATE)
    /\ instruction_reg = 5251
    /\ snap.reg[2] = 32767 /\ snap.reg[3] = 32768
    /\ reg[2] = 65535
    /\ N = 1 /\ Z = 0 /\ P = 0

----------------------------------------------------------------------------
(* C9: when the sequencer is back at FETCH1 after a JSR (opcode 4,          *)
(* IR[11] = 1) fetched from A, R7 = A+1 and PC = A+1+sext(IR[10:0]); and a  *)
(* later JMP R7 executed while R7 is still untouched sets PC = A+1.         *)
C9_JsrThenRet ==
    /\ (BackAtFetch(4) /\ Bit(snap.ir, 11) = 1) =>
         /\ reg[7] = Wrap(fetch_pc, 1)
         /\ pointer_counter = Wrap(fetch_pc, 1 + Signed(snap.ir, 11))
    /\ (JustRan(JMP_STATE) /\ FieldSR1(snap.ir) = 7 /\ jsr_link # NoLink) =>
         pointer_counter = jsr_link

\* JSR #2 from 0x3000 followed by RET: PC is back at 0x3001.
C9_Witness ==
    /\ JustRan(JMP_STATE)
    /\ snap.ir = 49600
    /\ jsr_link = 12289
    /\ pointer_counter = 12289

----------------------------------------------------------------------------
(* C10: from FETCH1 the next state is INTERRUPT iff INT = 1 and the         *)
(* privilege bit is 0, and FETCH2 otherwise; the INTERRUPT action           *)
(* decrements R6 by 2, stores the PSR word at old R6 - 1 and the PC at old  *)
(* R6 - 2, sets the privilege bit, sets PC = mem[0x0100], and the sequencer *)
(* returns to FETCH1.                                                       *)
C10_InterruptEntry ==
    [][ /\ (current_state = FETCH1 /\ ticks' # ticks) =>
             current_state' =
                IF INT = 1 /\ PSR_15 = 0 THEN INTERRUPT_STATE ELSE FETCH2
        /\ (current_state = INTERRUPT_STATE /\ ticks' # ticks) =>
             /\ reg' = [reg EXCEPT ![6] = Wrap(reg[6], -2)]
             /\ MemRead(mem', Wrap(reg[6], -1)) = MemRead(mem, PSR)
             /\ MemRead(mem', Wrap(reg[6], -2)) = pointer_counter
             /\ SameMemExcept(mem', mem,
                              {Wrap(reg[6], -1), Wrap(reg[6], -2)})
             /\ PSR_15' = 1
             /\ pointer_counter' = MemRead(mem', 256)
             /\ current_state' = FETCH1 ]_vars

\* Interrupt taken in user mode at PC = 0x3002 with R6 = 0x3022.
C10_Witness ==
    /\ JustRan(INTERRUPT_STATE)
    /\ current_state = FETCH1
    /\ PSR_15 = 1
    /\ reg[6] = 12320
    /\ MemRead(mem, 12321) = 2
    /\ MemRead(mem, 12320) = 12291
    /\ pointer_counter = 512

----------------------------------------------------------------------------
(* C11: after any tick at whose end MCR bit 15 is 0 the machine is halted   *)
(* normally (halt flag set, error flag not set), and once it is halted no   *)
(* further microstate executes: no instruction is fetched and nothing of   *)
(* the state changes any more.                                              *)
C11_NormalHalt ==
    /\ [](  (ticks > 0 /\ ~TestBit(MemRead(mem, MCR), 15))
              => (machine_halted /\ ~machine_error))
    /\ [][machine_halted => UNCHANGED vars]_vars

\* STR R0,R5,#0 with R5 = 0xFFFE has stored R0 (bit 15 clear) into MCR
C11_Witness ==
    /\ JustRan(STR_STATE2)
    /\ mem_addr_reg = MCR
    /\ ~TestBit(MemRead(mem, MCR), 15)
    /\ TestBit(MemRead(snap.mem, MCR), 15)
    /\ machine_halted

----------------------------------------------------------------------------
(* C12: whenever ACV = 1 at the end of a tick (MCR run bit set) the machine *)
(* stops with the error flag set before the next microstate runs: nothing  *)
(* changes afterwards, so the access at the violating MAR is never made,    *)
(* and memory is as the faulting instruction found it at its decode.        *)
C12_AccessViolationStops ==
    /\ [](  (ACV = 1 /\ TestBit(MemRead(mem, MCR), 15))
              => /\ machine_error
                 /\ ~machine_halted
                 /\ prev_state # FETCH1 => SameMemExcept(mem, snap.mem, {}))
    /\ [][ACV = 1 => UNCHANGED vars]_vars

\* a user-mode STR R0,R5,#0 aimed at 0xFFFE stopped after STR1, MCR intact
C12_Witness ==
    /\ JustRan(STR_STATE1)
    /\ ACV = 1
    /\ machine_error
    /\ current_state = STR_STATE2
    /\ MemRead(mem, mem_addr_reg) = 32768
    /\ reg[FieldDR(instruction_reg)] # 32768

----------------------------------------------------------------------------
(* C13: after every microstate that calls set_acv, ACV = 1 exactly when MAR *)
(* is outside 0x3000..0xFDFF and the privilege bit is 0; in supervisor mode *)
(* ACV is 0.                                                                *)
AcvStates ==
    {FETCH1, LD_STATE1, ST_STATE1, LDR_STATE1, STR_STATE1, LDI_STATE1,
     STI_STATE1, LDI_STATE2}

----------------------------------------------------------------------------
(* C14: every run terminates: for every program and initial state the      *)
(* sequencer eventually stops, by normal halt, by error or because a tick   *)
(* cap was exceeded (which would be reported through the error flag).       *)
(* Stated over SpecLoop, where the loop runs for as long as the code lets   *)
(* it.                                                                      *)
C14_EveryRunTerminates == <>(machine_halted \/ machine_error)

----------------------------------------------------------------------------
(* C15: from the reset state (Z = 1, N = P = 0), after any number of ticks, *)
(* RTI and interrupt entry included, exactly one of N, Z, P is 1.           *)
C15_OneConditionCode ==
    /\ {N, Z, P} = {0, 1}
    /\ N + Z + P = 1

\* the flags have moved off the reset value after an RTI and an interrupt
\* entry
C15_Witness ==
    /\ JustRan(INTERRUPT_STATE)
    /\ PSR_15 = 1
    /\ Z = 0
    /\ N + P = 1

----------------------------------------------------------------------------
(* C16: for every state number absent from the state table (4, 17, 19,      *)
(* 22..29, 31, 47..63) the action routine leaves registers, PC, IR, MAR,    *)
(* MDR, memory, flags and signals unchanged.                                *)
UnlistedStates == {4, 17, 19} \cup (22..29) \cup {31} \cup (47..63)

C16_UnlistedStatesAreNoOps ==
    [][(current_state \in UnlistedStates /\ ticks' # ticks)
         => /\ UNCHANGED <<pointer_counter, instruction_reg, mem_addr_reg,
                           mem_data_reg, reg, N, Z, P, BEN, INT, R, ACV,
                           PSR_15>>
            /\ SameMemExcept(mem, mem', {})]_vars

----------------------------------------------------------------------------
(* C17: memory is defined for all 65536 addresses: every read or write of   *)
(* a microstate uses an index inside the memory array, for every MAR value  *)
(* 0x0000..0xFFFF; in particular a supervisor-mode load or store at 0xFFFF  *)
(* accesses a valid word.                                                   *)
C17_AccessInsideArray ==
    prev_state \in MarAccessStates => mem_addr_reg < MemLen

----------------------------------------------------------------------------
(* C18: sign extension is idempotent: for every 16-bit value v and every   *)
(* sign-bit index k in 0..15, sext(sext(v, k), k) = sext(v, k), where       *)
(* sext(v, k) keeps bits k..0 of v and sets every bit above k to bit k.     *)
C18_SextIdempotent ==
    /\ Len(ext_res) >= 1 =>
         ext_res[1] = Wrap(0, Signed(ext_arg, ext_bit + 1))
    /\ Len(ext_res) = 2 => ext_res[2] = ext_res[1]

\* a negative field below bit 15 has been extended, twice
C18_Witness ==
    /\ Len(ext_res) = 2
    /\ ext_bit < 15
    /\ TestBit(ext_arg, ext_bit)
    /\ ext_res[1] # ext_arg
    /\ ext_res[1] > 32767

----------------------------------------------------------------------------
(* C19: when the pipeline model is enabled, every instruction executed by   *)
(* the sequencer is issued to the pipeline exactly once and exactly one     *)
(* pipeline cycle is advanced per executed instruction, in the step and in  *)
(* the run path: while state_machine runs the counts differ by at most the  *)
(* instruction under way, and when it has returned the number of issue      *)
(* calls and of cycles equals the number of instructions executed.  Stated  *)
(* over SpecMain.                                                           *)
C19_IssuedOncePerInstruction ==
    (pipeline_mode /\ lc3_pipeline_enabled) =>
        /\ executed - issue_calls \in {0 - 1, 0, 1}
        /\ executed - lc3_current_cycle \in {0 - 1, 0, 1}
        /\ (main_pc = "prompt" /\ ticks > 0) =>
              /\ issue_calls = executed
              /\ lc3_current_cycle = executed

----------------------------------------------------------------------------
(* C20: pipeline issue.  When stage 0 is occupied, issue leaves every slot  *)
(* unchanged and increments structural_hazards and stall_cycles by exactly  *)
(* 1 each; when stage 0 is empty, issue places the decoded packet in slot 0 *)
(* with issue_cycle equal to the current cycle counter and changes no       *)
(* metric counter and no other slot.  A slot is empty when it holds a       *)
(* cleared packet.  Stated for the enabled pipeline, over SpecPipe.         *)
IssueStep ==
    /\ pipe_calls' = pipe_calls + 1
    /\ pipe_call'.op = "issue"
    /\ lc3_pipeline_enabled

C20_IssueEffect ==
    [][IssueStep =>
        IF lc3_pipeline[0] # lc3_instruction_packet_init
        THEN /\ lc3_pipeline' = lc3_pipeline
             /\ lc3_pipeline_metrics' =
                  [lc3_pipeline_metrics EXCEPT
                      !.structural_hazards = @ + 1,
                      !.stall_cycles = @ + 1]
        ELSE /\ lc3_pipeline'[0].instruction = pipe_call'.instruction
             /\ lc3_pipeline'[0].pc = pipe_call'.pc
             /\ lc3_pipeline'[0].opcode
                  = (pipe_call'.instruction \div 4096) * 4096
             /\ lc3_pipeline'[0].issue_cycle = lc3_current_cycle
             /\ \A i \in 1..7 : lc3_pipeline'[i] = lc3_pipeline[i]
             /\ lc3_pipeline_metrics' = lc3_pipeline_metrics]_vars

----------------------------------------------------------------------------
(* Vocabulary of the pipeline properties.                                   *)

\* the configuration fits the arrays of 8 stages and 8 packets; what a
\* configuration of more than 8 stages does is the subject of C29
ValidConfig == lc3_pipeline_config.depth <= PIPELINE_SLOTS

\* a step that is one call of lc3_pipeline_cycle on the enabled pipeline
CycleStep ==
    /\ pipe_calls' = pipe_calls + 1
    /\ pipe_call'.op = "cycle"
    /\ lc3_pipeline_enabled

\* the hazard of `current` against `prior`, as the specification words it
HazardKind(current, prior) ==
    IF prior.dest_reg # 0
        /\ prior.dest_reg \in {current.src_reg1, current.src_reg2}
    THEN "RAW"
    ELSE IF current.dest_reg # 0 /\ prior.dest_reg # 0
             /\ current.dest_reg = prior.dest_reg
    THEN "WAW"
    ELSE IF current.dest_reg # 0
             /\ current.dest_reg \in {prior.src_reg1, prior.src_reg2}
    THEN "WAR"
    ELSE "none"

\* the occupied slots of the DECODE stage
DecodeSlots ==
    { s \in 0..(lc3_pipeline_config.depth - 1) :
        /\ lc3_pipeline_config.stages[s] = LC3_STAGE_DECODE
        /\ lc3_pipeline[s].instruction # 0 }

\* the number of deeper slots against which the packet in slot s has a
\* hazard of one of `kinds`, at the moment the cycle works on slot s: the
\* deeper stages have done their work of this cycle
HazardsFound(s, kinds) ==
    Cardinality({ i \in (s + 1)..(lc3_pipeline_config.depth - 1) :
        LET seen == CycleBetween([PM EXCEPT !.cycle = @ + 1,
                                            !.metrics.total_cycles = @ + 1],
                                 lc3_pipeline_config.depth - 1, s + 1,
                                 NoOverflow)
        IN HazardKind(lc3_pipeline[s], seen.pipeline[i]) \in kinds })

----------------------------------------------------------------------------
(* C21: with forwarding disabled, a packet in the DECODE stage is marked    *)
(* stalled, and stall_cycles and data_hazards are incremented, only when    *)
(* at least one of its hazards against a packet in a deeper stage is RAW;   *)
(* a packet whose only hazards are WAW or WAR is not stalled and advances   *)
(* in that cycle.  Stated over SpecPipe for packets that enter the cycle    *)
(* unstalled.                                                               *)
C21_StallOnlyOnRaw ==
    [][(CycleStep /\ ValidConfig /\ ~lc3_pipeline_config.forwarding_enabled)
        => \A s \in DecodeSlots :
             ~lc3_pipeline[s].stalled =>
               IF HazardsFound(s, {"RAW"}) > 0
               THEN /\ lc3_pipeline'[s].stalled
                    /\ lc3_pipeline'[s].pc = lc3_pipeline[s].pc
               ELSE /\ lc3_pipeline'[s + 1].pc = lc3_pipeline[s].pc
                    /\ lc3_pipeline'[s + 1].instruction
                         = lc3_pipeline[s].instruction
                    /\ ~lc3_pipeline'[s + 1].stalled
                    /\ lc3_pipeline_metrics'.data_hazards
                         = lc3_pipeline_metrics.data_hazards]_vars

----------------------------------------------------------------------------
(* C22: with forwarding enabled no packet is ever marked stalled and the    *)
(* DECODE stage never adds to stall_cycles, whatever the register           *)
(* dependencies of the issued instructions: no packet ever waits in its     *)
(* slot, and stall_cycles consists of the failed issues and the branch      *)
(* penalties only, as it does for a sequence without dependencies.  Over    *)
(* SpecPipe.                                                                *)
C22_ForwardingNeverStalls ==
    (lc3_pipeline_config.forwarding_enabled /\ ValidConfig) =>
        /\ \A s \in 0..(PIPELINE_SLOTS - 1) :
             /\ ~lc3_pipeline[s].stalled
             /\ lc3_pipeline[s].stall_cycles = 0
        /\ held = {}
        /\ lc3_pipeline_metrics.data_hazards = 0
        /\ lc3_pipeline_metrics.stall_cycles
             = lc3_pipeline_metrics.structural_hazards
               + (IF lc3_pipeline_config.branch_prediction_enabled THEN 0
                  ELSE lc3_pipeline_config.branch_penalty
                         * lc3_pipeline_metrics.control_hazards)

\* a packet has gone through DECODE with a RAW hazard recorded and is not
\* stalled, and no stall cycle has been counted
C22_Witness ==
    /\ lc3_pipeline_config.forwarding_enabled
    /\ lc3_pipeline_config.depth = 5
    /\ pipe_call.op = "cycle"
    /\ lc3_pipeline[2].instruction # 0
    /\ lc3_pipeline[2].num_hazards >= 1
    /\ lc3_pipeline[2].hazards[0] = LC3_HAZARD_DATA_RAW
    /\ ~lc3_pipeline[2].stalled
    /\ lc3_pipeline_metrics.stall_cycles = 0

----------------------------------------------------------------------------
(* C23: with forwarding enabled every RAW hazard detected in the DECODE     *)
(* stage is still counted: data_hazards increases by 1 for each RAW hazard  *)
(* found in a cycle, although no stall is added.  Over SpecPipe.            *)
C23_RawCountedWithForwarding ==
    [][(CycleStep /\ ValidConfig /\ lc3_pipeline_config.forwarding_enabled)
        => \A s \in DecodeSlots :
             /\ lc3_pipeline_metrics'.data_hazards
                  = lc3_pipeline_metrics.data_hazards
                    + HazardsFound(s, {"RAW"})
             /\ ~lc3_pipeline'[s + 1].stalled]_vars

----------------------------------------------------------------------------
(* C25: in every reachable pipeline state total_instructions is at most     *)
(* total_cycles, and at most one packet completes writeback per cycle.      *)
(* Over SpecPipe, for configurations of at most 8 stages.                   *)
C25_AtMostOnePerCycle ==
    /\ [](ValidConfig =>
            lc3_pipeline_metrics.total_instructions
              <= lc3_pipeline_metrics.total_cycles)
    /\ [][(CycleStep /\ ValidConfig) =>
            /\ lc3_pipeline_metrics'.total_instructions
                 - lc3_pipeline_metrics.total_instructions \in {0, 1}
            /\ Len(retired') - Len(retired)
                 = lc3_pipeline_metrics'.total_instructions
                   - lc3_pipeline_metrics.total_instructions]_vars

\* one packet has completed while another is on its way behind it
C25_Witness ==
    /\ pipe_call.op = "cycle"
    /\ lc3_pipeline_metrics.total_instructions = 1
    /\ Len(retired) = 1
    /\ lc3_pipeline_metrics.total_cycles >= 5
    /\ \E s \in 2..4 : lc3_pipeline[s].instruction # 0

----------------------------------------------------------------------------
(* C26: across issue and cycle calls none of the counters total_cycles,     *)
(* total_instructions, stall_cycles, data_hazards, control_hazards,         *)
(* structural_hazards, memory_reads, memory_writes, memory_stall_cycles     *)
(* decreases, and total_cycles increases by exactly 1 per cycle call and    *)
(* not at all per issue call.  Over SpecPipe, for the enabled pipeline.     *)
Counters ==
    {"total_cycles", "total_instructions", "stall_cycles", "data_hazards",
     "control_hazards", "structural_hazards", "memory_reads",
     "memory_writes", "memory_stall_cycles"}

----------------------------------------------------------------------------
----------------------------------------------------------------------------
(* C28: pipeline reset, from any reachable pipeline state, leaves every     *)
(* packet slot empty, every metric counter 0 and the cycle counter 0, and   *)
(* leaves every configuration field unchanged.  Over SpecPipe.              *)
C28_ResetEffect ==
    [][(pipe_calls' = pipe_calls + 1 /\ pipe_call'.op = "reset") =>
        /\ \A s \in 0..(PIPELINE_SLOTS - 1) :
             lc3_pipeline'[s] = lc3_instruction_packet_init
        /\ \A c \in Counters : lc3_pipeline_metrics'[c] = 0
        /\ lc3_current_cycle' = 0
        /\ lc3_pipeline_config' = lc3_pipeline_config]_vars

\* a reset has just cleared a pipeline that had run under the
\* configuration without forwarding
C28_Witness ==
    /\ pipe_call.op = "reset"
    /\ pipe_call.cycle >= 2
    /\ issue_calls >= 1
    /\ lc3_pipeline_config.depth = 5
    /\ ~lc3_pipeline_config.forwarding_enabled
    /\ lc3_pipeline_config.branch_penalty = 2
    /\ lc3_current_cycle = 0
    /\ lc3_pipeline_metrics.total_cycles = 0
    /\ \A s \in 0..(PIPELINE_SLOTS - 1) : lc3_pipeline[s].instruction = 0

----------------------------------------------------------------------------
(* C29: configuring the pipeline with depth > 8 is rejected, leaving the    *)
(* previous configuration and the pipeline contents unchanged; so the       *)
(* cycle loop never reads or writes a packet slot with index >= 8.  Over    *)
(* SpecPipe.                                                                *)
C29_DeepConfigRejected ==
    /\ [][(/\ pipe_calls' = pipe_calls + 1
           /\ pipe_call'.op = "configure"
           /\ pipe_call'.config.depth > PIPELINE_SLOTS)
           => /\ lc3_pipeline_config' = lc3_pipeline_config
              /\ lc3_pipeline' = lc3_pipeline]_vars
    /\ [](CycleSlots(PM) \subseteq 0..(PIPELINE_SLOTS - 1))

----------------------------------------------------------------------------
(* C24: throughput.  On the default 5-stage pipeline with forwarding,       *)
(* issuing one non-branch instruction before each cycle never fails         *)
(* (structural_hazards stays 0), the k-th issued instruction completes      *)
(* writeback during cycle k + depth - 1, and after N issues followed by     *)
(* depth further cycles total_instructions = N.  Over SpecFlow.             *)
C24_Throughput ==
    LET depth == lc3_pipeline_config.depth
        due == IF lc3_current_cycle - depth + 1 < 0 THEN 0
               ELSE IF lc3_current_cycle - depth + 1 > issue_calls
               THEN issue_calls
               ELSE lc3_current_cycle - depth + 1
    IN /\ lc3_pipeline_metrics.structural_hazards = 0
       /\ Len(retired) = due
       /\ lc3_pipeline_metrics.total_instructions = due
       /\ \A k \in 1..Len(retired) :
            /\ retired[k].pc = Add16(USER_SPACE_ADDR, k - 1)
            /\ retired[k].completion_cycle = k + depth - 1
       /\ (pipe_call.op = "drain" /\ pipe_call.i = depth) =>
            lc3_pipeline_metrics.total_instructions = issue_calls

\* two instructions were issued and the pipeline has been drained
C24_Witness ==
    /\ pipe_call.op = "drain"
    /\ pipe_call.i = lc3_pipeline_config.depth
    /\ issue_calls >= 2
    /\ lc3_pipeline_metrics.total_instructions = issue_calls
    /\ retired[2].completion_cycle = 6
    /\ lc3_pipeline_metrics.structural_hazards = 0

----------------------------------------------------------------------------
(* C30: the hazard of the packet in DECODE (current) against a packet in a  *)
(* deeper stage (prior) is RAW iff prior.dest_reg # 0 and prior.dest_reg    *)
(* equals current.src_reg1 or current.src_reg2; otherwise WAW iff both      *)
(* dest_reg are non-zero and equal; otherwise WAR iff current.dest_reg # 0  *)
(* and equals prior.src_reg1 or prior.src_reg2; otherwise none.  Hence a    *)
(* prior packet writing R0, and an empty slot, never produce a hazard.      *)
(* Over SpecHaz.                                                            *)
KindOf(hazard) ==
    CASE hazard = LC3_HAZARD_DATA_RAW -> "RAW"
      [] hazard = LC3_HAZARD_DATA_WAW -> "WAW"
      [] hazard = LC3_HAZARD_DATA_WAR -> "WAR"
      [] OTHER -> "none"

C30_HazardClassification ==
    pipe_call.op = "check" =>
        /\ pipe_call.hazard \in
             {LC3_HAZARD_NONE, LC3_HAZARD_DATA_RAW, LC3_HAZARD_DATA_WAW,
              LC3_HAZARD_DATA_WAR}
        /\ KindOf(pipe_call.hazard)
             = HazardKind(lc3_pipeline[1], lc3_pipeline[2])
        /\ lc3_pipeline[2].dest_reg = 0 =>
             pipe_call.hazard = LC3_HAZARD_NONE
        /\ lc3_pipeline[2] = lc3_instruction_packet_init =>
             pipe_call.hazard = LC3_HAZARD_NONE

(* C30 as amended: the classification is as stated; a prior packet writing  *)
(* R0 never produces a RAW or a WAW hazard, but produces a WAR hazard when  *)
(* current.dest_reg # 0 equals one of its source registers; an empty slot   *)
(* never produces a hazard.                                                 *)
C30_HazardClassificationAmended ==
    pipe_call.op = "check" =>
        /\ pipe_call.hazard \in
             {LC3_HAZARD_NONE, LC3_HAZARD_DATA_RAW, LC3_HAZARD_DATA_WAW,
              LC3_HAZARD_DATA_WAR}
        /\ KindOf(pipe_call.hazard)
             = HazardKind(lc3_pipeline[1], lc3_pipeline[2])
        /\ lc3_pipeline[2].dest_reg = 0 =>
             (pipe_call.hazard = LC3_HAZARD_DATA_WAR
                <=> /\ lc3_pipeline[1].dest_reg # 0
                    /\ lc3_pipeline[1].dest_reg
                         \in {lc3_pipeline[2].src_reg1,
                              lc3_pipeline[2].src_reg2})
        /\ lc3_pipeline[2].dest_reg = 0 =>
             pipe_call.hazard \in {LC3_HAZARD_NONE, LC3_HAZARD_DATA_WAR}
        /\ lc3_pipeline[2] = lc3_instruction_packet_init =>
             pipe_call.hazard = LC3_HAZARD_NONE

\* the prior packet writes R0 and reads the register the current one writes
C30_Witness ==
    /\ pipe_call.op = "check"
    /\ lc3_pipeline[2].dest_reg = 0
    /\ lc3_pipeline[1].dest_reg # 0
    /\ lc3_pipeline[2].src_reg2 = lc3_pipeline[1].dest_reg
    /\ pipe_call.hazard = LC3_HAZARD_DATA_WAR

----------------------------------------------------------------------------
(* Vocabulary of the stall and conservation properties.                     *)

AllKinds == {"RAW", "WAW", "WAR"}

\* the slots that hold an issued packet (a cleared slot has pc 0, and the
\* packets are issued with pc 0x3000 and up)
Resident ==
    { s \in 0..(PIPELINE_SLOTS - 1) :
        lc3_pipeline[s] # lc3_instruction_packet_init }

\* slot s is empty when the cycle works on the slot before it
EmptyAhead(s) ==
    CycleBetween([PM EXCEPT !.cycle = @ + 1, !.metrics.total_cycles = @ + 1],
                 lc3_pipeline_config.depth - 1, s,
                 NoOverflow).pipeline[s].instruction = 0

----------------------------------------------------------------------------
(* C31: a stall is temporary.  With forwarding disabled, a packet in the    *)
(* DECODE stage stays there only while a packet it has a hazard with is     *)
(* still in a deeper stage: in a cycle in which no deeper stage holds a     *)
(* conflicting packet and the next slot is empty, the packet advances (so   *)
(* that, the deeper packets completing writeback after at most depth        *)
(* cycles, every issued packet completes writeback if cycles keep being     *)
(* executed).  Over SpecStall.                                              *)
C31_StallIsTemporary ==
    [][(CycleStep /\ ValidConfig /\ ~lc3_pipeline_config.forwarding_enabled)
        => \A s \in DecodeSlots :
             (HazardsFound(s, AllKinds) = 0 /\ EmptyAhead(s + 1))
               => /\ lc3_pipeline'[s + 1].pc = lc3_pipeline[s].pc
                  /\ lc3_pipeline'[s + 1].instruction
                       = lc3_pipeline[s].instruction]_vars

----------------------------------------------------------------------------
(* C32: for every configuration of depth up to 8 and every sequence of      *)
(* issues and cycles, the number of hazards recorded on a packet never      *)
(* exceeds 4: in every cycle the hazards a packet in DECODE already has     *)
(* and the ones this cycle finds fit the 4 entries of its list, so that     *)
(* every index written is in 0..3, and num_hazards stays within 0..4.       *)
(* Over SpecStall.                                                          *)
C32_HazardListBounded ==
    /\ [](ValidConfig =>
            \A s \in 0..(PIPELINE_SLOTS - 1) :
                lc3_pipeline[s].num_hazards \in 0..HAZARD_SLOTS)
    /\ [][(CycleStep /\ ValidConfig)
            => \A s \in DecodeSlots :
                 lc3_pipeline[s].num_hazards + HazardsFound(s, AllKinds)
                   <= HAZARD_SLOTS]_vars

----------------------------------------------------------------------------
(* C33: instruction conservation.  For every instruction word, 0x0000       *)
(* included, total_instructions plus the number of packets resident in the  *)
(* pipeline equals the number of issue calls since the reset that did not   *)
(* fail as a structural hazard: an issue that does not fail adds one to     *)
(* the sum, a failed issue and a cycle leave the sum as it is, and reset,   *)
(* init and configure leave it 0.  Over SpecPipe, on the enabled pipeline.  *)
C33_Conservation ==
    [][(lc3_pipeline_enabled /\ ValidConfig /\ pipe_calls' = pipe_calls + 1)
        => LET before == lc3_pipeline_metrics.total_instructions
                           + Cardinality(Resident)
               after == lc3_pipeline_metrics'.total_instructions
                          + Cardinality(Resident')
           IN CASE pipe_call'.op = "issue" ->
                     IF lc3_pipeline_metrics'.structural_hazards
                          = lc3_pipeline_metrics.structural_hazards
                     THEN after = before + 1
                     ELSE after = before
                [] pipe_call'.op = "cycle" -> after = before
                [] OTHER -> after = 0]_vars

----------------------------------------------------------------------------
(* C34: the pipeline is in order.  In a cycle a packet stays in its slot,   *)
(* moves to the next slot, or completes writeback: it moves at most one     *)
(* stage, no packet is lost to another one moving onto it, and of two       *)
(* packets in the pipeline the one issued earlier is in the deeper slot;    *)
(* the packets complete writeback in the order in which they were issued.   *)
(* Over SpecStall: both stage lists, with packets stalled in DECODE and     *)
(* issues refused.                                                          *)
C34_InOrder ==
    /\ [](\A s \in Resident : \A t \in Resident :
            s < t => lc3_pipeline[s].pc > lc3_pipeline[t].pc)
    /\ [](\A i \in 1..Len(retired) : \A j \in 1..Len(retired) :
            i < j => retired[i].pc < retired[j].pc)
    /\ [][(CycleStep /\ ValidConfig)
            => \A s \in Resident :
                 \/ lc3_pipeline'[s].pc = lc3_pipeline[s].pc
                 \/ /\ s + 1 < PIPELINE_SLOTS
                    /\ lc3_pipeline'[s + 1].pc = lc3_pipeline[s].pc
                    /\ EmptyAhead(s + 1)
                 \/ /\ Len(retired') > Len(retired)
                    /\ \E k \in (Len(retired) + 1)..Len(retired') :
                         retired'[k].pc = lc3_pipeline[s].pc]_vars

\* two packets have completed writeback one after the other while a third
\* one was held in its slot behind them
C34_Witness ==
    /\ Len(retired) >= 2
    /\ held # {}
    /\ Resident # {}

----------------------------------------------------------------------------
(* C35: every instruction returns to fetch.  From DECODE, for every IR      *)
(* value and every value of BEN, INT and the privilege bit, the sequencer   *)
(* is back in FETCH1 after at most 5 ticks, the DECODE tick included,       *)
(* unless the machine has stopped; the current state is always in 0..63,    *)
(* the chains of two opcodes share no state, and a tick in a chain leads    *)
(* to a later state of the chain of the decoded opcode or to FETCH1.        *)

\* the states of the chain of opcode op, in the order the claim's bound of
\* 5 ticks allows them to be visited
Chain(op) ==
    CASE op = 0 -> <<BR_STATE, BR_TAKEN>>
      [] op = 1 -> <<ADD_STATE>>
      [] op = 2 -> <<LD_STATE1, LD_STATE2, LD_STATE3>>
      [] op = 3 -> <<ST_STATE1, ST_STATE2>>
      [] op = 4 -> <<JSR_STATE>>
      [] op = 5 -> <<AND_STATE>>
      [] op = 6 -> <<LDR_STATE1, LDR_STATE2, LDR_STATE3>>
      [] op = 7 -> <<STR_STATE1, STR_STATE2>>
      [] op = 8 -> <<RTI_STATE>>
      [] op = 9 -> <<NOT_STATE>>
      [] op = 10 -> <<LDI_STATE1, LDI_STATE2, LDI_STATE3, LDI_STATE4>>
      [] op = 11 -> <<STI_STATE1, STI_STATE2>>
      [] op = 12 -> <<JMP_STATE>>
      [] op = 14 -> <<LEA_STATE>>
      [] op = 15 -> <<TRAP_STATE1, TRAP_STATE2, TRAP_STATE3, TRAP_STATE4>>
      [] OTHER -> << >>

\* the chain of a JSR word with IR[11] = 0 is the JSRR state
ChainOfWord(ir) ==
    IF Opcode4(ir) = 4 /\ Bit(ir, 11) = 0 THEN <<JSRR_STATE>>
    ELSE Chain(Opcode4(ir))

\* the position of state cs in the sequence chain, 0 when it is not there
Position(chain, cs) ==
    IF \E i \in 1..Len(chain) : chain[i] = cs
    THEN CHOOSE i \in 1..Len(chain) : chain[i] = cs
    ELSE 0

TickStep == ticks' = ticks + 1

\* no state of the chain of the word ir belongs to the chain of another
\* opcode, or twice to its own
ChainApart(ir) ==
    LET chain == ChainOfWord(ir)
    IN /\ \A i \in 1..Len(chain) : \A j \in 1..Len(chain) :
            i # j => chain[i] # chain[j]
       /\ \A op \in 0..15 : \A i \in 1..Len(chain) :
            \A j \in 1..Len(Chain(op)) :
                op # Opcode4(ir) => chain[i] # Chain(op)[j]

C35_ReturnsToFetch ==
    [][TickStep
        => /\ current_state \in 0..63
           /\ current_state' \in 0..63
           /\ should_continue_execution' =>
                LET chain == ChainOfWord(snap'.ir)
                IN /\ current_state = DECODE =>
                        /\ chain # << >>
                        /\ Len(chain) <= 4
                        /\ ChainApart(snap'.ir)
                        /\ current_state' = chain[1]
                   /\ current_state \notin {FETCH1, FETCH2, FETCH3, DECODE,
                                            INTERRUPT_STATE} =>
                        /\ Position(chain, current_state) > 0
                        /\ \/ current_state' = FETCH1
                           \/ Position(chain, current_state')
                                > Position(chain, current_state)]_vars

\* LDI has run its four states after DECODE and the sequencer is back at
\* FETCH1, still running: 5 ticks from DECODE
C35_Witness ==
    /\ BackAtFetch(10)
    /\ JustRan(LDI_STATE4)
    /\ should_continue_execution

----------------------------------------------------------------------------
(* C36: between ticks the privilege signal, which SET_ACV and the           *)
(* interrupt test of FETCH1 read, equals bit 15 of the PSR word at address  *)
(* 0xFFFC, after any sequence of instructions, interrupt entries and RTIs   *)
(* from the reset state (PSR = 0x8002, privilege 1).                        *)
C36_PrivilegeMatchesPSR ==
    PSR_15 = Bit(MemRead(mem, PSR), 15)

----------------------------------------------------------------------------
(* C37: interrupt entry followed by RTI is a round trip.  When an           *)
(* interrupt is taken at FETCH1 with PC = A in user mode (the FETCH1 tick,  *)
(* then the INTERRUPT tick) and RTI then runs on R6 and the two stack       *)
(* words as the entry left them, R6 and the privilege bit have their        *)
(* values from before the interrupt and PC = A.                             *)
C37_InterruptRoundTrip ==
    (current_state = FETCH1 /\ INT = 1 /\ PSR_15 = 0
        /\ should_continue_execution)
      => LET fetched == execute_current_state(AS, FETCH1)
             entered == execute_current_state(fetched, INTERRUPT_STATE)
             back == execute_current_state(entered, RTI_STATE)
         IN /\ get_next_state(fetched, FETCH1) = INTERRUPT_STATE
            /\ back.reg[6] = reg[6]
            /\ back.PSR_15 = PSR_15
            /\ back.pc = pointer_counter

----------------------------------------------------------------------------
(* C38: while the privilege bit is 0, no tick of a store chain (ST, STI,    *)
(* STR) changes a memory word outside user space 0x3000-0xFDFF: the         *)
(* machine stops with ACV before the state that would write it.             *)
StoreStates ==
    {ST_STATE1, ST_STATE2, STI_STATE1, STI_STATE2, STR_STATE1, STR_STATE2}

C38_UserStoresStayInUserSpace ==
    [][(TickStep /\ PSR_15 = 0 /\ current_state \in StoreStates)
        => /\ SameMemExcept(mem', mem, USER_SPACE_ADDR..USER_SPACE_LIMIT)
           /\ (ACV' = 1 => /\ machine_error'
                           /\ mem' = mem)]_vars

\* a user-mode STR whose address is outside user space has stopped the
\* machine after its first state
C38_Witness ==
    /\ PSR_15 = 0
    /\ JustRan(STR_STATE1)
    /\ ACV = 1
    /\ mem_addr_reg > USER_SPACE_LIMIT
    /\ machine_error

----------------------------------------------------------------------------
(* C39: the halt outcomes are mutually exclusive.  In every state reached   *)
(* through state_machine the normal-halt flag and the error flag are not    *)
(* both set, and when state_machine returns, which is when its loop         *)
(* condition is false, exactly one of them is set.                          *)
C39_HaltOutcomesExclusive ==
    /\ ~(machine_halted /\ machine_error)
    /\ ~should_continue_execution => (machine_halted # machine_error)

\* a store has cleared the run bit of MCR: normal halt, no error
C39_Witness ==
    /\ machine_halted
    /\ ~machine_error
    /\ Bit(MemRead(mem, MCR), 15) = 0
    /\ JustRan(STR_STATE2)

----------------------------------------------------------------------------
(* C40: for a JSRR (opcode 4, IR[11] = 0) fetched from address A, when the  *)
(* sequencer is back at FETCH1 R7 = A + 1 and PC is the value register      *)
(* BaseR = IR[8:6] held before the instruction executed, for every BaseR    *)
(* in 0..7, 7 included.                                                     *)
C40_Jsrr ==
    (BackAtFetch(4) /\ Bit(snap.ir, 11) = 0 /\ JustRan(JSRR_STATE))
      => /\ reg[7] = Wrap(fetch_pc, 1)
         /\ pointer_counter = snap.reg[FieldSR1(snap.ir)]

============================================================================
